---- MODULE Spec2Model ----
(***************************************************************************)
(* Memory engine of the Telegram bot "El Rincon de Patri" (src/index.js):  *)
(* one conversation (one chatId) handled by one Node.js process, with the  *)
(* optional Vercel KV store behind it.                                     *)
(*                                                                         *)
(* An action is one continuation of the JavaScript event loop: the code    *)
(* that runs, without interruption, from the completion of one `await` to  *)
(* the next one.  Fire-and-forget promise chains (summary, clinical note,  *)
(* diary, history write) are the background tasks.                         *)
(***************************************************************************)
EXTENDS Integers, Sequences, FiniteSets, TLC

\* ---------------------------------------------------------------------
\* Program constants (src/index.js:105-108)
\* ---------------------------------------------------------------------
MAX_HISTORY_MESSAGES == 50
MAX_SUMMARY_MESSAGES == 10
MAX_SUMMARIES_PER_CATEGORY == 5
CLINICAL_NOTES_INTERVAL == 10

\* ---------------------------------------------------------------------
\* Bounds of the exploration
\* ---------------------------------------------------------------------
MaxNewTurns == 2      \* webhook calls started during one behaviour
MaxHandlers == 2      \* webhook handlers that may overlap
MaxTasks == 2         \* background promise chains alive at once
MaxFaults == 1        \* failures injected (generation, KV read, KV write)
MaxDay == 2           \* calendar days the clock goes through

\* Number of turns the conversation has already had, cleanly, when the
\* exploration starts (see CleanState).
StartTurns == {0, 9, 49}

\* The categories the classification prompt lists (lines 2559-2566).
Taxonomy == {"Ansiedad y estrés", "Tristeza y depresión", "Cansancio y fatiga",
             "Autoestima y autoconfianza", "Dolor físico",
             "Ejercicios y técnicas", "Celebración y avances", "Otros"}

\* Classification answers of the generation service that are explored; the
\* answer is free text: two names of the list and one text that is not on
\* it.  "Otros" is also the value used when the call fails.
Categories == {"Otros", "Ansiedad y estrés", "Ansiedad"}

Handlers == 1..MaxHandlers
Slots == 1..MaxTasks

VARIABLES
  kv,                    \* TRUE iff the Vercel KV client was initialised
  today,                 \* the calendar day of new Date(), 1..MaxDay
  pc,                    \* per webhook handler: the await it is suspended at
  conversationHistory,   \* Map entry chatId -> array of turns
  conversationSummaries, \* Map entry chatId -> {category: array of summaries}
  lastSummaryCount,      \* Map entry chatId -> number (0: no entry)
  clinicalHistory,       \* Map entry chatId -> array of clinical notes
  dailyDiary,            \* Map entry chatId -> array of diary entries
  lastDiaryDate,         \* Map entry chatId -> day (0: no entry)
  kvStore,               \* the keys of this chat in Vercel KV
  histWrites,            \* history snapshots whose kv.set is in flight
  tasks,                 \* background promise chains, by slot
  nAppended,             \* number of turns saveMessage has appended so far
  started,               \* number of webhook calls started in this behaviour
  nextText,              \* identifies the next text the generation service returns
  faults,                \* failures injected so far
  generated,             \* observation: the chains whose generation call
                         \* returned a text, as [kind, trig, date, text]
  apiLog,                \* observation: the overall-summary requests answered
                         \* so far, as [request, result, called]
  passes,                \* observation: the promise chains the webhook has
                         \* started, as [kind, turn, text, date]
  kvErrors,              \* observation: the kv.set calls that threw, as
                         \* [key, value]
  prompts,               \* observation: the diary prompts the trigger of
                         \* the webhook has built, as [started, turns,
                         \* previous]
  outbox,                \* observation: what the webhook has sent out, in
                         \* order: "reply" / "apology" (sendTelegramMessage
                         \* to the user) and "200" (res.sendStatus)
  rawReply,              \* completion.data.choices[0].message.content, as tokens
  responses,             \* what the sanitizer of generateResponse returned:
                         \* for rawReply, then for its own output
  systemPromptConfig,    \* config.systemPrompt as getBotConfig returns it,
                         \* as a sequence of parts
  instructionDocs,       \* TRUE iff instructionDocs holds text
  requestMessages        \* the array messages generateResponse sent to
                         \* the chat completions endpoint (<<>>: none yet)

engineVars == <<kv, today, pc, conversationHistory, conversationSummaries,
                lastSummaryCount, clinicalHistory, dailyDiary, lastDiaryDate,
                kvStore, histWrites, tasks, nAppended, started, nextText,
                faults, generated, apiLog, passes, outbox, kvErrors,
                prompts>>

sanitizerVars == <<rawReply, responses>>

assemblerVars == <<systemPromptConfig, instructionDocs, requestMessages>>

vars == <<engineVars, sanitizerVars, assemblerVars>>

procVars == <<conversationHistory, conversationSummaries, lastSummaryCount,
              clinicalHistory, dailyDiary, lastDiaryDate>>

\* ---------------------------------------------------------------------
\* Values
\* ---------------------------------------------------------------------
Min(a, b) == IF a < b THEN a ELSE b

Range(s) == {s[i] : i \in DOMAIN s}

\* newMessage of saveMessage: the texts are left out, the turn is identified
\* by its position in the order of appends; the timestamp is kept as its day.
Turn(n, d) == [id |-> n, date |-> d]

NoSummaries == [c \in Categories |-> <<>>]

\* Object.keys of the object stored for the conversation: a category with
\* no summaries is a key that was never created.
Keys(sums) == {c \in DOMAIN sums : sums[c] # <<>>}

NoTask == [kind |-> "none", pc |-> "none", live |-> FALSE, mlen |-> 0,
           trig |-> 0, date |-> 0, text |-> 0, val |-> <<>>, sums |-> NoSummaries,
           num |-> 0]

EmptyStore == [history |-> <<>>, summaries |-> NoSummaries, summaryCount |-> 0,
               clinical |-> <<>>, diary |-> <<>>, diaryDate |-> 0,
               overall |-> 0]

\* ---------------------------------------------------------------------
\* Failure injection: a call to an external service (generation, KV) either
\* completes or fails; failures are counted against MaxFaults.
\* ---------------------------------------------------------------------
Generated(t) == [kind |-> t.kind, trig |-> t.trig, date |-> t.date,
                 text |-> t.text]

Outcomes == IF faults < MaxFaults THEN {TRUE, FALSE} ELSE {TRUE}

Charge(ok) == faults' = IF ok THEN faults ELSE faults + 1

\* Variant: every write to KV removes the stored overall summary.
KvSetInvalidating(store, key, value, ok) ==
  IF ok THEN [store EXCEPT ![key] = value, !.overall = 0] ELSE store

\* kv.set(key, value) completing: the value sent replaces the key's value
\* (last write wins); a failed call leaves the store as it was.
KvSet(store, key, value, ok) ==
  IF ok THEN [store EXCEPT ![key] = value] ELSE store

\* The kv.set calls that have thrown, once the one of `value` under `key`
\* has returned: each save function catches the error of its kv.set and
\* writes it to the console.
Thrown(errors, key, value, ok) ==
  IF ok THEN errors ELSE errors \cup {[key |-> key, value |-> value]}

\* ---------------------------------------------------------------------
\* Background promise chains
\* ---------------------------------------------------------------------
FreeSlots(ts) == {i \in Slots : ts[i].kind = "none"}

Busy(ts) == {i \in Slots : ts[i].kind # "none"}

RECURSIVE Spawn(_, _)
\* The promise chains of `new` (a sequence of task records) are started.
Spawn(ts, new) ==
  IF new = <<>> THEN ts
  ELSE LET i == CHOOSE j \in FreeSlots(ts) : \A k \in FreeSlots(ts) : j <= k
       IN  Spawn([ts EXCEPT ![i] = Head(new)], Tail(new))

\* messagesAfterSave.length as a closure of the summary chain sees it: the
\* closure holds the array object that was the Map entry when the chain was
\* started.  While that object is still the Map entry (live) its length is
\* the current one; once loadHistoryFromKV has put another array in the Map
\* the object is no longer changed and keeps the length it had (mlen).
ArrLen(t) == IF t.live THEN Len(conversationHistory) ELSE t.mlen

\* ---------------------------------------------------------------------
\* saveMessage (src/index.js:2427-2483)
\* ---------------------------------------------------------------------
\* Variant: the oldest turn is not removed.
PushMessageKeepAll(messages, m) == Append(messages, m)

\* messages.push(newMessage); if (messages.length > MAX) messages.shift()
PushMessage(messages, m) ==
  LET pushed == Append(messages, m)
  IN  IF Len(pushed) > MAX_HISTORY_MESSAGES THEN Tail(pushed) ELSE pushed

\* ---------------------------------------------------------------------
\* Trigger conditions of the webhook, evaluated on the history after the
\* append (messagesAfterSave)
\* ---------------------------------------------------------------------
\* Variant: the pass is started five turns early.
ShouldSummarizeEarly(msgs, lastCount) ==
  Len(msgs) > 0 /\ Len(msgs) >= lastCount + MAX_SUMMARY_MESSAGES - 5

ShouldSummarize(msgs, lastCount) ==
  Len(msgs) > 0 /\ Len(msgs) >= lastCount + MAX_SUMMARY_MESSAGES

ShouldGenerateClinicalNote(msgs, notes) ==
  /\ Len(msgs) >= CLINICAL_NOTES_INTERVAL
  /\ Len(msgs) % CLINICAL_NOTES_INTERVAL = 0
  /\ ~ \E i \in DOMAIN notes : notes[i].messageCount = Len(msgs)

ShouldGenerateDiary(msgs, lastDate, day) ==
  lastDate # day /\ Len(msgs) > 0

\* Variant: the turns are never filtered by date.
MessagesToUseAll(msgs, lastDate, day) == msgs

\* messagesToUse: all the turns when there is no diary date yet, else the
\* turns whose timestamp is on `day`.
MessagesToUse(msgs, lastDate, day) ==
  IF lastDate = 0 THEN msgs ELSE SelectSeq(msgs, LAMBDA m : m.date = day)

\* saveConversationSummary and generateClinicalNote return at once when
\* messages.length < 5; both triggers require a length of at least 10, so a
\* started chain always reaches its generation call.  `text` identifies the
\* text the generation service returns to the chain if its call succeeds.
SummaryTask(msgs, text) ==
  [NoTask EXCEPT !.kind = "summary", !.pc = "gen", !.live = TRUE,
                 !.trig = Len(msgs), !.text = text]

ClinicalTask(msgs, text) ==
  [NoTask EXCEPT !.kind = "clinical", !.pc = "gen", !.trig = Len(msgs),
                 !.text = text]

DiaryTask(msgs, day, text) ==
  [NoTask EXCEPT !.kind = "diary", !.pc = "gen", !.trig = Len(msgs),
                 !.date = day, !.text = text]

\* The promise chains the webhook starts after saveMessage (steps 6, 7, 8).
Triggered(msgs, lastCount, notes, lastDate, day, text) ==
  LET s == IF ShouldSummarize(msgs, lastCount)
             THEN <<SummaryTask(msgs, text)>> ELSE <<>>
      c == IF ShouldGenerateClinicalNote(msgs, notes)
             THEN <<ClinicalTask(msgs, text + Len(s))>> ELSE <<>>
      d == IF ShouldGenerateDiary(msgs, lastDate, day)
              /\ MessagesToUse(msgs, lastDate, day) # <<>>
             THEN <<DiaryTask(msgs, day, text + Len(s) + Len(c))>> ELSE <<>>
  IN  s \o c \o d

\* ---------------------------------------------------------------------
\* The stored artefacts
\* ---------------------------------------------------------------------
\* Variant: the category's list is not capped.
AddSummaryNoCap(sums, cat, entry) ==
  [sums EXCEPT ![cat] = Append(sums[cat], entry)]

\* saveConversationSummary, lines 2614-2638: push on the category's list,
\* shift when it is longer than MAX_SUMMARIES_PER_CATEGORY.
AddSummary(sums, cat, entry) ==
  LET pushed == Append(sums[cat], entry)
  IN  [sums EXCEPT ![cat] =
         IF Len(pushed) > MAX_SUMMARIES_PER_CATEGORY THEN Tail(pushed)
         ELSE pushed]

\* saveClinicalNote, lines 2881-2896: the note is pushed with
\* sessionNumber = history.length + 1 and messageCount = the length of the
\* conversation history at the time of the save.
SaveClinicalNote(notes, text, count) ==
  Append(notes, [note |-> text, sessionNumber |-> Len(notes) + 1,
                 messageCount |-> count])

RECURSIVE InsertByDate(_, _)
\* diary.sort((a, b) => b.date.localeCompare(a.date)): most recent first.
InsertByDate(diary, e) ==
  IF diary = <<>> THEN <<e>>
  ELSE IF Head(diary).date < e.date THEN <<e>> \o diary
  ELSE <<Head(diary)>> \o InsertByDate(Tail(diary), e)

\* Variant: the entry is always added, an entry of the same date is kept.
SaveDailyDiaryEntryAdd(diary, text, date, count) ==
  InsertByDate(diary, [date |-> date, summary |-> text, messageCount |-> count])

\* saveDailyDiaryEntry, lines 3029-3051: the entry of the same date is
\* replaced, else the entry is added; the list is then sorted by date.
SaveDailyDiaryEntry(diary, text, date, count) ==
  LET entry == [date |-> date, summary |-> text, messageCount |-> count]
  IN  IF \E i \in DOMAIN diary : diary[i].date = date
      THEN LET i == CHOOSE j \in DOMAIN diary : diary[j].date = date
           IN  SubSeq(diary, 1, i - 1) \o <<entry>>
                 \o SubSeq(diary, i + 1, Len(diary))
      ELSE InsertByDate(diary, entry)

\* ---------------------------------------------------------------------
\* Initial states: the conversation after k turns on day 1 that were
\* handled one after the other, with every external call succeeding and
\* each turn's background work finished before the next turn (text 1 is the
\* diary entry of turn 1; at each multiple of ten a summary pass and then a
\* clinical note were generated).
\* ---------------------------------------------------------------------
RECURSIVE CleanTurns(_)
CleanTurns(k) == IF k = 0 THEN <<>> ELSE Append(CleanTurns(k - 1), Turn(k, 1))

RECURSIVE CleanSummaryList(_)
CleanSummaryList(p) ==
  IF p = 0 THEN <<>>
  ELSE Append(CleanSummaryList(p - 1),
              [summary |-> 2 * p, messageCount |-> MAX_SUMMARY_MESSAGES * p])

CleanSummaries(k) ==
  [NoSummaries EXCEPT !["Otros"] = CleanSummaryList(k \div MAX_SUMMARY_MESSAGES)]

RECURSIVE CleanNoteList(_)
CleanNoteList(p) ==
  IF p = 0 THEN <<>>
  ELSE SaveClinicalNote(CleanNoteList(p - 1), 2 * p + 1,
                        CLINICAL_NOTES_INTERVAL * p)

CleanNotes(k) == CleanNoteList(k \div CLINICAL_NOTES_INTERVAL)

CleanDiary(k) ==
  IF k = 0 THEN <<>> ELSE <<[date |-> 1, summary |-> 1, messageCount |-> 1]>>

CleanData(k, configured) ==
  /\ kv = configured
  /\ today = 1
  /\ conversationHistory = CleanTurns(k)
  /\ conversationSummaries = CleanSummaries(k)
  /\ lastSummaryCount = MAX_SUMMARY_MESSAGES * (k \div MAX_SUMMARY_MESSAGES)
  /\ clinicalHistory = CleanNotes(k)
  /\ dailyDiary = CleanDiary(k)
  /\ lastDiaryDate = IF k = 0 THEN 0 ELSE 1
  /\ kvStore = IF configured
                 THEN [history |-> conversationHistory,
                       summaries |-> conversationSummaries,
                       summaryCount |-> lastSummaryCount,
                       clinical |-> clinicalHistory,
                       diary |-> dailyDiary,
                       diaryDate |-> lastDiaryDate,
                       overall |-> 0]
                 ELSE EmptyStore
  /\ histWrites = {}
  /\ tasks = [i \in Slots |-> NoTask]
  /\ nAppended = k
  /\ nextText = IF k = 0 THEN 1 ELSE 2 * (k \div MAX_SUMMARY_MESSAGES) + 2
  /\ faults = 0
  /\ generated = {}
  /\ apiLog = <<>>
  /\ passes = {}
  /\ outbox = <<>>
  /\ kvErrors = {}
  /\ prompts = {}

\* The state after k sequential turns, no webhook call in progress.
CleanState(k, configured) ==
  /\ CleanData(k, configured)
  /\ pc = [h \in Handlers |-> "idle"]
  /\ started = 0

\* No reply has been assembled: the stored prompt of the panel, no
\* documentation read from files, nothing sent.
IdleAssembler ==
  /\ systemPromptConfig = <<"base">>
  /\ instructionDocs = FALSE
  /\ requestMessages = <<>>

\* The memory engine is explored with no reply in the sanitizer.
Init ==
  /\ \E k \in StartTurns : \E configured \in BOOLEAN : CleanState(k, configured)
  /\ rawReply = <<>>
  /\ responses = <<>>
  /\ IdleAssembler

\* ---------------------------------------------------------------------
\* The webhook handler (app.post("/webhook"), lines 1843-2162)
\* ---------------------------------------------------------------------
\* A text message arrives.  Without KV the four load functions return at
\* once, so the handler runs on to the await of generateResponse.
BeginTurn(h) ==
  /\ pc[h] = "idle"
  /\ \A g \in Handlers : g < h => pc[g] # "idle"
  /\ started' = started + 1
  /\ pc' = [pc EXCEPT ![h] = IF kv THEN "load" ELSE "reply"]
  /\ UNCHANGED <<kv, today, procVars, kvStore, histWrites, tasks, nAppended,
                 nextText, faults>>
  /\ UNCHANGED generated
  /\ UNCHANGED sanitizerVars
  /\ UNCHANGED assemblerVars
  /\ UNCHANGED prompts
  /\ UNCHANGED <<apiLog, passes, outbox, kvErrors>>

\* A message arrives while fewer than MaxNewTurns have been started.
StartTurn(h) ==
  /\ started < MaxNewTurns
  /\ BeginTurn(h)

\* The kv.get calls a webhook call makes before its generation call, in
\* order: those of the four load functions, then the one of getBotConfig
\* (called first thing by generateResponse, line 2230).  A call that throws
\* ends its load function (the error is logged and the webhook goes on with
\* the next load); getBotConfig falls back to the configuration of the
\* process.  The configuration is no part of the memory engine: the read
\* changes none of its state.
KvReads == <<"summaries", "summaryCount", "clinical", "diary", "diaryDate",
             "history", "config">>

\* Variant: a kv.get that throws ends the webhook call.
AfterLoadsAbort(failed) == IF failed = "none" THEN "reply" ELSE "idle"

\* Where the handler goes after its KV reads, when `failed` is the kv.get
\* that threw: every error is caught (lines 1942-1961 and 1309-1313), so on
\* to the generation call.
AfterLoads(failed) == "reply"

\* Whether the kv.get of `key` returned a value to its load function, when
\* `failed` is the kv.get that threw ("none": no call threw).
Returned(key, failed) ==
  CASE key = "summaryCount" -> failed \notin {"summaries", "summaryCount"}
    [] key = "diaryDate" -> failed \notin {"diary", "diaryDate"}
    [] OTHER -> failed # key

\* loadSummariesFromKV, lines 2671-2690.
LoadedSummaries(current, stored) ==
  IF stored # NoSummaries THEN stored ELSE current

LoadedSummaryCount(current, stored) ==
  IF stored # 0 THEN stored ELSE current

\* loadClinicalHistoryFromKV, lines 2938-2950.
LoadedClinical(current, stored) ==
  IF stored # <<>> THEN stored ELSE current

\* loadDailyDiaryFromKV, lines 3074-3091.
LoadedDiary(current, stored) ==
  IF stored # <<>> THEN stored ELSE current

LoadedDiaryDate(current, stored) ==
  IF stored # 0 THEN stored ELSE current

\* loadHistoryFromKV, lines 2726-2746: a non-empty stored list becomes the
\* Map entry (a new array object).
LoadedHistory(current, stored) ==
  IF stored # <<>> THEN stored ELSE current

\* The closures that hold the array that was the Map entry keep it, with
\* the length it has now, when the Map entry becomes another array.
Detach(ts) ==
  [i \in Slots |->
     IF ts[i].live
       THEN [ts[i] EXCEPT !.live = FALSE, !.mlen = Len(conversationHistory)]
       ELSE ts[i]]

\* Step 1 of the webhook (lines 1940-1961): the four loads complete and the
\* handler goes on to generateResponse.
LoadFromKV(h) ==
  /\ kv /\ pc[h] = "load"
  /\ \E failed \in {"none"} \cup
                   (IF faults < MaxFaults THEN Range(KvReads) ELSE {}) :
       /\ Charge(failed = "none")
       /\ pc' = [pc EXCEPT ![h] = AfterLoads(failed)]
       /\ conversationSummaries' =
            IF Returned("summaries", failed)
              THEN LoadedSummaries(conversationSummaries, kvStore.summaries)
              ELSE conversationSummaries
       /\ lastSummaryCount' =
            IF Returned("summaryCount", failed)
              THEN LoadedSummaryCount(lastSummaryCount, kvStore.summaryCount)
              ELSE lastSummaryCount
       /\ clinicalHistory' =
            IF Returned("clinical", failed)
              THEN LoadedClinical(clinicalHistory, kvStore.clinical)
              ELSE clinicalHistory
       /\ dailyDiary' =
            IF Returned("diary", failed)
              THEN LoadedDiary(dailyDiary, kvStore.diary)
              ELSE dailyDiary
       /\ lastDiaryDate' =
            IF Returned("diaryDate", failed)
              THEN LoadedDiaryDate(lastDiaryDate, kvStore.diaryDate)
              ELSE lastDiaryDate
       /\ conversationHistory' =
            IF Returned("history", failed)
              THEN LoadedHistory(conversationHistory, kvStore.history)
              ELSE conversationHistory
       /\ tasks' = IF Returned("history", failed) /\ kvStore.history # <<>>
                     THEN Detach(tasks) ELSE tasks
  /\ UNCHANGED <<kv, today, kvStore, histWrites, nAppended, started, nextText>>
  /\ UNCHANGED generated
  /\ UNCHANGED sanitizerVars
  /\ UNCHANGED assemblerVars
  /\ UNCHANGED prompts
  /\ UNCHANGED <<apiLog, passes, outbox, kvErrors>>

\* Variant: the catch block forwards the text of the exception.
AnswerRawError(ok) == IF ok THEN <<"reply", "200">> ELSE <<"error", "200">>

\* What the handler sends out once generateResponse and sendTelegramMessage
\* have completed.  ok: the reply (line 1986), then the status (line 2137).
\* Otherwise the exception reaches the catch block of line 2138, which sends
\* the fixed text of line 2152 and then the status (line 2160).
Answer(ok) == IF ok THEN <<"reply", "200">> ELSE <<"apology", "200">>

\* Variant: saveMessage runs whether or not the reply was delivered.
AfterAnswerAlways(ok, msgs, turn) == PushMessage(msgs, turn)

\* The history once the handler has answered: saveMessage (line 1991) comes
\* after the awaits of generateResponse and sendTelegramMessage in the same
\* try block, so it runs only if neither threw.
AfterAnswer(ok, msgs, turn) == IF ok THEN PushMessage(msgs, turn) ELSE msgs

\* The chains a webhook call starts, as observed: `turn` is the number of
\* the turn the call has just appended.
Started(new, turn) ==
  {[kind |-> new[n].kind, turn |-> turn, text |-> new[n].text,
    date |-> new[n].date] : n \in DOMAIN new}

\* generateResponse and sendTelegramMessage complete; `day` is the day the
\* clock shows by then.  On failure the catch block answers and nothing is
\* saved.  On success the handler runs, without suspension, saveMessage and
\* the three trigger checks (steps 5 to 8).
Reply(h) ==
  /\ pc[h] = "reply"
  /\ pc' = [pc EXCEPT ![h] = "idle"]
  /\ \E day \in {today, Min(today + 1, MaxDay)} : \E ok \in Outcomes :
       /\ Charge(ok)
       /\ today' = day
       /\ outbox' = outbox \o Answer(ok)
       /\ IF ok
            THEN LET msgs == AfterAnswer(ok, conversationHistory,
                                         Turn(nAppended + 1, day))
                     new == Triggered(msgs, lastSummaryCount, clinicalHistory,
                                      lastDiaryDate, day, nextText)
                 IN  /\ Len(new) <= Cardinality(FreeSlots(tasks))
                     /\ conversationHistory' = msgs
                     /\ nAppended' = nAppended + 1
                     /\ histWrites' = IF kv THEN histWrites \cup {msgs}
                                      ELSE histWrites
                     /\ tasks' = Spawn(tasks, new)
                     /\ nextText' = nextText + Len(new)
                     /\ passes' = passes \cup Started(new, nAppended + 1)
            ELSE /\ conversationHistory' =
                      AfterAnswer(ok, conversationHistory,
                                  Turn(nAppended + 1, day))
                 /\ UNCHANGED <<nAppended, histWrites, tasks, nextText,
                                passes>>
  /\ UNCHANGED <<kv, conversationSummaries, lastSummaryCount,
                 clinicalHistory, dailyDiary, lastDiaryDate, kvStore, started>>
  /\ UNCHANGED generated
  /\ UNCHANGED sanitizerVars
  /\ UNCHANGED assemblerVars
  /\ UNCHANGED prompts
  /\ UNCHANGED <<apiLog, kvErrors>>

\* Variant: a failure in the background sends the apology.
LoggedWithApology(ok, box) == IF ok THEN box ELSE Append(box, "apology")

\* What the webhook has sent out after a call made in the background (a
\* promise chain or the kv.set of the history) has returned.  A failure is
\* caught where it happens, or by the .catch of the chain, and written to
\* the console only.
Logged(ok, box) == box

\* The kv.set of saveHistoryToKV (started by saveMessage, not awaited by
\* the handler) completes.
HistoryKvSet(w) ==
  /\ w \in histWrites
  /\ histWrites' = histWrites \ {w}
  /\ \E ok \in Outcomes :
       /\ Charge(ok)
       /\ outbox' = Logged(ok, outbox)
       /\ kvStore' = KvSet(kvStore, "history", w, ok)
       /\ kvErrors' = Thrown(kvErrors, "history", w, ok)
  /\ UNCHANGED <<kv, today, pc, procVars, tasks, nAppended, started, nextText>>
  /\ UNCHANGED generated
  /\ UNCHANGED sanitizerVars
  /\ UNCHANGED assemblerVars
  /\ UNCHANGED prompts
  /\ UNCHANGED <<apiLog, passes>>

\* ---------------------------------------------------------------------
\* Category summary chain: saveConversationSummary(...).then(...) started
\* at lines 2004-2021
\* ---------------------------------------------------------------------
\* The value the .then callback of line 2005 gives lastSummaryCount: the
\* callback runs whenever saveConversationSummary returns, whether or not a
\* summary was written.
CountAfterPass(t, written) == ArrLen(t)

\* What a generator returns when its call fails (null).
NoText == 0

\* Variant: the summary is written whatever generateConversationSummary
\* returned.
SummariesAfterPassUnchecked(sums, cat, text, count) ==
  AddSummary(sums, cat, [summary |-> text, messageCount |-> count])

\* The Map entry saveConversationSummary leaves for the result `text` of
\* generateConversationSummary: it returns at line 2612 when there is none.
SummariesAfterPass(sums, cat, text, count) ==
  IF text = NoText THEN sums
  ELSE AddSummary(sums, cat, [summary |-> text, messageCount |-> count])

\* categorizeConversation, lines 2549-2597: the trimmed answer of the
\* completion, as it is, or "Otros" when the call throws.
Categorize(answer, classified) == IF classified THEN answer ELSE "Otros"

\* categorizeConversation and generateConversationSummary complete:
\* `answer` is the classification answer, `classified` tells whether that
\* call succeeded, ok whether a summary text came back
\* (generateConversationSummary returns null on any error).
SummaryGenerated(i) ==
  LET t == tasks[i] IN
  /\ t.kind = "summary" /\ t.pc = "gen"
  /\ \E answer \in Categories : \E ok \in Outcomes :
     \E classified \in (IF ok THEN Outcomes ELSE {TRUE}) :
     LET cat == Categorize(answer, classified) IN
       /\ Charge(ok /\ classified)
       /\ outbox' = Logged(ok /\ classified, outbox)
       /\ generated' = IF ok THEN generated \cup {Generated(t)} ELSE generated
       /\ IF ok
            THEN LET sums == SummariesAfterPass(conversationSummaries, cat,
                                                t.text, ArrLen(t))
                 IN  /\ conversationSummaries' = sums
                     /\ IF kv
                          THEN /\ tasks' = [tasks EXCEPT ![i].pc = "kvSummaries",
                                                         ![i].sums = sums]
                               /\ UNCHANGED lastSummaryCount
                          ELSE /\ tasks' = [tasks EXCEPT ![i] = NoTask]
                               /\ lastSummaryCount' = CountAfterPass(t, TRUE)
            ELSE /\ lastSummaryCount' = CountAfterPass(t, FALSE)
                 /\ tasks' = IF kv
                               THEN [tasks EXCEPT ![i].pc = "kvCount",
                                       ![i].num = CountAfterPass(t, FALSE)]
                               ELSE [tasks EXCEPT ![i] = NoTask]
                 /\ conversationSummaries' =
                      SummariesAfterPass(conversationSummaries, cat, NoText,
                                         ArrLen(t))
  /\ UNCHANGED <<kv, today, pc, conversationHistory, clinicalHistory,
                 dailyDiary, lastDiaryDate, kvStore, histWrites, nAppended,
                 started, nextText>>
  /\ UNCHANGED sanitizerVars
  /\ UNCHANGED assemblerVars
  /\ UNCHANGED prompts
  /\ UNCHANGED <<apiLog, passes, kvErrors>>

\* kv.set of the summaries (line 2643) completes; a failure is logged and
\* saveConversationSummary returns all the same, so the callback sets the
\* counter and sends it to KV.
SummaryKvSet(i) ==
  LET t == tasks[i] IN
  /\ t.kind = "summary" /\ t.pc = "kvSummaries"
  /\ \E ok \in Outcomes :
       /\ Charge(ok)
       /\ outbox' = Logged(ok, outbox)
       /\ kvStore' = KvSet(kvStore, "summaries", t.sums, ok)
       /\ kvErrors' = Thrown(kvErrors, "summaries", t.sums, ok)
  /\ lastSummaryCount' = CountAfterPass(t, TRUE)
  /\ tasks' = [tasks EXCEPT ![i].pc = "kvCount",
                            ![i].num = CountAfterPass(t, TRUE),
                            ![i].sums = NoSummaries]
  /\ UNCHANGED <<kv, today, pc, conversationHistory, conversationSummaries,
                 clinicalHistory, dailyDiary, lastDiaryDate, histWrites,
                 nAppended, started, nextText>>
  /\ UNCHANGED generated
  /\ UNCHANGED sanitizerVars
  /\ UNCHANGED assemblerVars
  /\ UNCHANGED prompts
  /\ UNCHANGED <<apiLog, passes>>

\* kv.set of the counter (line 2012) completes.
SummaryCountKvSet(i) ==
  LET t == tasks[i] IN
  /\ t.kind = "summary" /\ t.pc = "kvCount"
  /\ \E ok \in Outcomes :
       /\ Charge(ok)
       /\ outbox' = Logged(ok, outbox)
       /\ kvStore' = KvSet(kvStore, "summaryCount", t.num, ok)
       /\ kvErrors' = Thrown(kvErrors, "summaryCount", t.num, ok)
  /\ tasks' = [tasks EXCEPT ![i] = NoTask]
  /\ UNCHANGED <<kv, today, pc, procVars, histWrites, nAppended, started,
                 nextText>>
  /\ UNCHANGED generated
  /\ UNCHANGED sanitizerVars
  /\ UNCHANGED assemblerVars
  /\ UNCHANGED prompts
  /\ UNCHANGED <<apiLog, passes>>

\* ---------------------------------------------------------------------
\* Clinical note chain: generateClinicalNote(...).then(...) started at
\* lines 2042-2061
\* ---------------------------------------------------------------------
\* Variant: the note is saved whatever generateClinicalNote returned.
NotesAfterSaveUnchecked(notes, text, count) ==
  SaveClinicalNote(notes, text, count)

\* What the chain leaves in the Map for the result `text` of
\* generateClinicalNote: saveClinicalNote is called only for a text (line
\* 2044) and returns at once without one (line 2867).
NotesAfterSave(notes, text, count) ==
  IF text = NoText THEN notes ELSE SaveClinicalNote(notes, text, count)

\* generateClinicalNote completes (null on any error: nothing is saved).
ClinicalGenerated(i) ==
  LET t == tasks[i] IN
  /\ t.kind = "clinical" /\ t.pc = "gen"
  /\ \E ok \in Outcomes :
       /\ Charge(ok)
       /\ outbox' = Logged(ok, outbox)
       /\ generated' = IF ok THEN generated \cup {Generated(t)} ELSE generated
       /\ IF ok
            THEN LET notes == NotesAfterSave(clinicalHistory, t.text,
                                             Len(conversationHistory))
                 IN  /\ clinicalHistory' = notes
                     /\ tasks' = IF kv
                                   THEN [tasks EXCEPT ![i].pc = "kvClinical",
                                                      ![i].val = notes]
                                   ELSE [tasks EXCEPT ![i] = NoTask]
            ELSE /\ tasks' = [tasks EXCEPT ![i] = NoTask]
                 /\ clinicalHistory' =
                      NotesAfterSave(clinicalHistory, NoText,
                                     Len(conversationHistory))
  /\ UNCHANGED <<kv, today, pc, conversationHistory, conversationSummaries,
                 lastSummaryCount, dailyDiary, lastDiaryDate, kvStore,
                 histWrites, nAppended, started, nextText>>
  /\ UNCHANGED sanitizerVars
  /\ UNCHANGED assemblerVars
  /\ UNCHANGED prompts
  /\ UNCHANGED <<apiLog, passes, kvErrors>>

\* kv.set of the notes (line 2904) completes; the chain goes on to reload
\* the notes from KV (line 2050).
ClinicalKvSet(i) ==
  LET t == tasks[i] IN
  /\ t.kind = "clinical" /\ t.pc = "kvClinical"
  /\ \E ok \in Outcomes :
       /\ Charge(ok)
       /\ outbox' = Logged(ok, outbox)
       /\ kvStore' = KvSet(kvStore, "clinical", t.val, ok)
       /\ kvErrors' = Thrown(kvErrors, "clinical", t.val, ok)
  /\ tasks' = [tasks EXCEPT ![i].pc = "reload", ![i].val = <<>>]
  /\ UNCHANGED <<kv, today, pc, procVars, histWrites, nAppended, started,
                 nextText>>
  /\ UNCHANGED generated
  /\ UNCHANGED sanitizerVars
  /\ UNCHANGED assemblerVars
  /\ UNCHANGED prompts
  /\ UNCHANGED <<apiLog, passes>>

\* The kv.get of that reload completes.
ClinicalReload(i) ==
  LET t == tasks[i] IN
  /\ t.kind = "clinical" /\ t.pc = "reload"
  /\ \E ok \in Outcomes :
       /\ Charge(ok)
       /\ outbox' = Logged(ok, outbox)
       /\ clinicalHistory' =
            IF ok /\ kvStore.clinical # <<>> THEN kvStore.clinical
            ELSE clinicalHistory
  /\ tasks' = [tasks EXCEPT ![i] = NoTask]
  /\ UNCHANGED <<kv, today, pc, conversationHistory, conversationSummaries,
                 lastSummaryCount, dailyDiary, lastDiaryDate, kvStore,
                 histWrites, nAppended, started, nextText>>
  /\ UNCHANGED generated
  /\ UNCHANGED sanitizerVars
  /\ UNCHANGED assemblerVars
  /\ UNCHANGED prompts
  /\ UNCHANGED <<apiLog, passes, kvErrors>>

\* ---------------------------------------------------------------------
\* Diary chain: generateDailyDiaryEntry(...).then(...) started at lines
\* 2101-2125
\* ---------------------------------------------------------------------
\* The value line 2105 gives lastDiaryDate once the entry of day `date` is
\* saved.
DateAfterSave(current, date) == date

\* Variant: the date is set whatever generateDailyDiaryEntry returned.
DateAfterPassAlways(current, date, text) == date

\* The value of lastDiaryDate once the callback of line 2102 has run for
\* the result `text` of generateDailyDiaryEntry: everything it does is
\* inside `if (diaryEntry)`.
DateAfterPass(current, date, text) ==
  IF text = NoText THEN current ELSE DateAfterSave(current, date)

\* generateDailyDiaryEntry completes (null on any error); a text is saved
\* by saveDailyDiaryEntry.
DiaryGenerated(i) ==
  LET t == tasks[i] IN
  /\ t.kind = "diary" /\ t.pc = "gen"
  /\ \E ok \in Outcomes :
       /\ Charge(ok)
       /\ outbox' = Logged(ok, outbox)
       /\ generated' = IF ok THEN generated \cup {Generated(t)} ELSE generated
       /\ IF ok
            THEN LET diary == SaveDailyDiaryEntry(dailyDiary, t.text, t.date,
                                                  Len(conversationHistory))
                 IN  /\ dailyDiary' = diary
                     /\ IF kv
                          THEN /\ tasks' = [tasks EXCEPT ![i].pc = "kvDiary",
                                                         ![i].val = diary]
                               /\ UNCHANGED lastDiaryDate
                          ELSE /\ tasks' = [tasks EXCEPT ![i] = NoTask]
                               /\ lastDiaryDate' =
                                    DateAfterSave(lastDiaryDate, t.date)
            ELSE /\ tasks' = [tasks EXCEPT ![i] = NoTask]
                 /\ lastDiaryDate' =
                      DateAfterPass(lastDiaryDate, t.date, NoText)
                 /\ UNCHANGED dailyDiary
  /\ UNCHANGED <<kv, today, pc, conversationHistory, conversationSummaries,
                 lastSummaryCount, clinicalHistory, kvStore, histWrites,
                 nAppended, started, nextText>>
  /\ UNCHANGED sanitizerVars
  /\ UNCHANGED assemblerVars
  /\ UNCHANGED prompts
  /\ UNCHANGED <<apiLog, passes, kvErrors>>

\* kv.set of the diary (line 3056) completes.  On failure the catch of line
\* 3059 skips the second kv.set, saveDailyDiaryEntry returns and line 2105
\* sets the date.
DiaryKvSet(i) ==
  LET t == tasks[i] IN
  /\ t.kind = "diary" /\ t.pc = "kvDiary"
  /\ \E ok \in Outcomes :
       /\ Charge(ok)
       /\ outbox' = Logged(ok, outbox)
       /\ kvStore' = KvSet(kvStore, "diary", t.val, ok)
       /\ kvErrors' = Thrown(kvErrors, "diary", t.val, ok)
       /\ IF ok
            THEN /\ tasks' = [tasks EXCEPT ![i].pc = "kvEntryDate",
                                           ![i].val = <<>>]
                 /\ UNCHANGED lastDiaryDate
            ELSE /\ tasks' = [tasks EXCEPT ![i].pc = "kvDate", ![i].val = <<>>]
                 /\ lastDiaryDate' = DateAfterSave(lastDiaryDate, t.date)
  /\ UNCHANGED <<kv, today, pc, conversationHistory, conversationSummaries,
                 lastSummaryCount, clinicalHistory, dailyDiary, histWrites,
                 nAppended, started, nextText>>
  /\ UNCHANGED generated
  /\ UNCHANGED sanitizerVars
  /\ UNCHANGED assemblerVars
  /\ UNCHANGED prompts
  /\ UNCHANGED <<apiLog, passes>>

\* kv.set of the entry's date (line 3057) completes; saveDailyDiaryEntry
\* returns and line 2105 sets the date.
DiaryEntryDateKvSet(i) ==
  LET t == tasks[i] IN
  /\ t.kind = "diary" /\ t.pc = "kvEntryDate"
  /\ \E ok \in Outcomes :
       /\ Charge(ok)
       /\ outbox' = Logged(ok, outbox)
       /\ kvStore' = KvSet(kvStore, "diaryDate", t.date, ok)
       /\ kvErrors' = Thrown(kvErrors, "diaryDate", t.date, ok)
  /\ lastDiaryDate' = DateAfterSave(lastDiaryDate, t.date)
  /\ tasks' = [tasks EXCEPT ![i].pc = "kvDate"]
  /\ UNCHANGED <<kv, today, pc, conversationHistory, conversationSummaries,
                 lastSummaryCount, clinicalHistory, dailyDiary, histWrites,
                 nAppended, started, nextText>>
  /\ UNCHANGED generated
  /\ UNCHANGED sanitizerVars
  /\ UNCHANGED assemblerVars
  /\ UNCHANGED prompts
  /\ UNCHANGED <<apiLog, passes>>

\* kv.set of the date (line 2110) completes.
DiaryDateKvSet(i) ==
  LET t == tasks[i] IN
  /\ t.kind = "diary" /\ t.pc = "kvDate"
  /\ \E ok \in Outcomes :
       /\ Charge(ok)
       /\ outbox' = Logged(ok, outbox)
       /\ kvStore' = KvSet(kvStore, "diaryDate", t.date, ok)
       /\ kvErrors' = Thrown(kvErrors, "diaryDate", t.date, ok)
  /\ tasks' = [tasks EXCEPT ![i] = NoTask]
  /\ UNCHANGED <<kv, today, pc, procVars, histWrites, nAppended, started,
                 nextText>>
  /\ UNCHANGED generated
  /\ UNCHANGED sanitizerVars
  /\ UNCHANGED assemblerVars
  /\ UNCHANGED prompts
  /\ UNCHANGED <<apiLog, passes>>

\* ---------------------------------------------------------------------
\* The specification
\* ---------------------------------------------------------------------
Next ==
  \/ \E h \in Handlers : StartTurn(h)
  \/ \E h \in Handlers : LoadFromKV(h)
  \/ \E h \in Handlers : Reply(h)
  \/ \E w \in histWrites : HistoryKvSet(w)
  \/ \E i \in Slots : SummaryGenerated(i)
  \/ \E i \in Slots : SummaryKvSet(i)
  \/ \E i \in Slots : SummaryCountKvSet(i)
  \/ \E i \in Slots : ClinicalGenerated(i)
  \/ \E i \in Slots : ClinicalKvSet(i)
  \/ \E i \in Slots : ClinicalReload(i)
  \/ \E i \in Slots : DiaryGenerated(i)
  \/ \E i \in Slots : DiaryKvSet(i)
  \/ \E i \in Slots : DiaryEntryDateKvSet(i)
  \/ \E i \in Slots : DiaryDateKvSet(i)

Spec == Init /\ [][Next]_vars

\* ---------------------------------------------------------------------
\* Progress.  A step that ends an await is certain to happen only when
\* every call awaited carries a timeout: the call then ends, at the latest
\* with the timeout error.  generateResponse (timeout: 30000, line 2336),
\* sendTelegramMessage (timeout: 10000, line 2201) and
\* generateDailyDiaryEntry (timeout: 30000, line 3003) pass one to axios;
\* generateConversationSummary (2519-2536), categorizeConversation
\* (2572-2590) and generateClinicalNote (2831-2851) pass none, and axios
\* then waits without limit; the kv.get and kv.set calls pass none either.
\* So the reply step and the diary generation step are certain to end when
\* KV is not configured (with KV they first await kv.get in getBotConfig),
\* and no other step is.  The arrival of a message is never certain.
\* ---------------------------------------------------------------------
TimeoutSpec ==
  /\ Init
  /\ [][Next]_vars
  /\ \A h \in Handlers : WF_vars(~kv /\ Reply(h))
  /\ \A i \in Slots : WF_vars(~kv /\ DiaryGenerated(i))

\* ---------------------------------------------------------------------
\* Two messages of the conversation arrive one right after the other: the
\* webhook is called for the second while the call for the first is at its
\* first await, so the two calls are in progress at once.
\* ---------------------------------------------------------------------
OverlapInit ==
  /\ \E k \in StartTurns : \E configured \in BOOLEAN : CleanData(k, configured)
  /\ pc = [h \in Handlers |->
             IF h <= 2 THEN (IF kv THEN "load" ELSE "reply") ELSE "idle"]
  /\ started = 2
  /\ rawReply = <<>>
  /\ responses = <<>>
  /\ IdleAssembler

OverlapNext ==
  \/ \E h \in Handlers : LoadFromKV(h)
  \/ \E h \in Handlers : Reply(h)
  \/ \E w \in histWrites : HistoryKvSet(w)
  \/ \E i \in Slots : SummaryGenerated(i)
  \/ \E i \in Slots : SummaryKvSet(i)
  \/ \E i \in Slots : SummaryCountKvSet(i)
  \/ \E i \in Slots : ClinicalGenerated(i)
  \/ \E i \in Slots : ClinicalKvSet(i)
  \/ \E i \in Slots : ClinicalReload(i)
  \/ \E i \in Slots : DiaryGenerated(i)
  \/ \E i \in Slots : DiaryKvSet(i)
  \/ \E i \in Slots : DiaryEntryDateKvSet(i)
  \/ \E i \in Slots : DiaryDateKvSet(i)

OverlapSpec == OverlapInit /\ [][OverlapNext]_vars

\* ---------------------------------------------------------------------
\* A conversation on its first days: one turn and the diary entry of day 1
\* are held by the process (and by KV when it is configured).  The next
\* turns are far from the thresholds of the summary and of the clinical
\* note, so the only promise chain a webhook call can start is the diary's.
\* ---------------------------------------------------------------------
FirstDaysInit ==
  /\ \E configured \in BOOLEAN : CleanState(1, configured)
  /\ rawReply = <<>>
  /\ responses = <<>>
  /\ IdleAssembler

FirstDaysNext ==
  \/ \E h \in Handlers : StartTurn(h)
  \/ \E h \in Handlers : LoadFromKV(h)
  \/ \E h \in Handlers : Reply(h)
  \/ \E w \in histWrites : HistoryKvSet(w)
  \/ \E i \in Slots : DiaryGenerated(i)
  \/ \E i \in Slots : DiaryKvSet(i)
  \/ \E i \in Slots : DiaryEntryDateKvSet(i)
  \/ \E i \in Slots : DiaryDateKvSet(i)

FirstDaysSpec == FirstDaysInit /\ [][FirstDaysNext]_vars

\* ---------------------------------------------------------------------
\* A conversation handled one turn at a time: a new conversation, every
\* call to the generation service and to KV succeeds, and a message arrives
\* only when the previous turn's handler and background work have finished.
\* ---------------------------------------------------------------------
MaxSerialTurns == 60

Quiescent ==
  /\ \A h \in Handlers : pc[h] = "idle"
  /\ Busy(tasks) = {}
  /\ histWrites = {}

SerialInit ==
  /\ \E configured \in BOOLEAN : CleanState(0, configured)
  /\ rawReply = <<>>
  /\ responses = <<>>
  /\ IdleAssembler

SerialStartTurn ==
  /\ Quiescent
  /\ started < MaxSerialTurns
  /\ BeginTurn(1)

SerialNext ==
  \/ SerialStartTurn
  \/ LoadFromKV(1) /\ faults' = faults
  \/ Reply(1) /\ faults' = faults
  \/ \E w \in histWrites : HistoryKvSet(w) /\ faults' = faults
  \/ \E i \in Slots : SummaryGenerated(i) /\ faults' = faults
  \/ \E i \in Slots : SummaryKvSet(i) /\ faults' = faults
  \/ \E i \in Slots : SummaryCountKvSet(i) /\ faults' = faults
  \/ \E i \in Slots : ClinicalGenerated(i) /\ faults' = faults
  \/ \E i \in Slots : ClinicalKvSet(i) /\ faults' = faults
  \/ \E i \in Slots : ClinicalReload(i) /\ faults' = faults
  \/ \E i \in Slots : DiaryGenerated(i) /\ faults' = faults
  \/ \E i \in Slots : DiaryKvSet(i) /\ faults' = faults
  \/ \E i \in Slots : DiaryEntryDateKvSet(i) /\ faults' = faults
  \/ \E i \in Slots : DiaryDateKvSet(i) /\ faults' = faults

SerialSpec == SerialInit /\ [][SerialNext]_vars

\* ---------------------------------------------------------------------
\* The overall summary of the history: GET /api/complete-history/:chatId
\* (lines 1681-1755) and POST /api/overall-history-summary/:chatId (lines
\* 1784-1818).  The requests of this part are handled one at a time, with
\* every call succeeding, so the continuations of one request are taken
\* together.
\* ---------------------------------------------------------------------
MaxApiRequests == 3

\* The load functions return at once when kv is null.
FromKV(current, loaded) == IF kv THEN loaded ELSE current

\* generateOverallHistorySummary (lines 3108-3174): null (0) when there is
\* neither a diary entry nor a clinical note, else the text the generation
\* service returns.
GenerateOverallHistorySummary(diary, notes, text) ==
  IF diary = <<>> /\ notes = <<>> THEN 0 ELSE text

\* GET /api/complete-history: the notes, the diary and the history are
\* loaded; the stored overall summary is read if KV is configured; when
\* there is none and there is a diary entry or a note, a summary is
\* generated, and stored if KV is configured.
CompleteHistory ==
  LET notes == FromKV(clinicalHistory,
                      LoadedClinical(clinicalHistory, kvStore.clinical))
      diary == FromKV(dailyDiary, LoadedDiary(dailyDiary, kvStore.diary))
      stored == IF kv THEN kvStore.overall ELSE 0
      called == stored = 0 /\ (diary # <<>> \/ notes # <<>>)
      result == IF called
                  THEN GenerateOverallHistorySummary(diary, notes, nextText)
                  ELSE stored
  IN  /\ Len(apiLog) < MaxApiRequests
      /\ clinicalHistory' = notes
      /\ dailyDiary' = diary
      /\ lastDiaryDate' =
           FromKV(lastDiaryDate,
                  LoadedDiaryDate(lastDiaryDate, kvStore.diaryDate))
      /\ conversationHistory' =
           FromKV(conversationHistory,
                  LoadedHistory(conversationHistory, kvStore.history))
      /\ tasks' = IF kv /\ kvStore.history # <<>> THEN Detach(tasks) ELSE tasks
      /\ nextText' = IF called THEN nextText + 1 ELSE nextText
      /\ kvStore' = IF called /\ result # 0 /\ kv
                      THEN [kvStore EXCEPT !.overall = result]
                      ELSE kvStore
      /\ apiLog' = Append(apiLog, [request |-> "view", result |-> result,
                                    called |-> called])
      /\ UNCHANGED <<kv, today, pc, conversationSummaries, lastSummaryCount,
                     histWrites, nAppended, started, faults, generated>>
      /\ UNCHANGED sanitizerVars
      /\ UNCHANGED assemblerVars
      /\ UNCHANGED prompts
      /\ UNCHANGED <<passes, outbox, kvErrors>>

\* POST /api/overall-history-summary: the diary, the notes and the summaries
\* are loaded, a summary is generated and, if there is one, stored when KV
\* is configured.
RegenerateOverall ==
  LET notes == FromKV(clinicalHistory,
                      LoadedClinical(clinicalHistory, kvStore.clinical))
      diary == FromKV(dailyDiary, LoadedDiary(dailyDiary, kvStore.diary))
      called == diary # <<>> \/ notes # <<>>
      result == GenerateOverallHistorySummary(diary, notes, nextText)
  IN  /\ Len(apiLog) < MaxApiRequests
      /\ clinicalHistory' = notes
      /\ dailyDiary' = diary
      /\ lastDiaryDate' =
           FromKV(lastDiaryDate,
                  LoadedDiaryDate(lastDiaryDate, kvStore.diaryDate))
      /\ conversationSummaries' =
           FromKV(conversationSummaries,
                  LoadedSummaries(conversationSummaries, kvStore.summaries))
      /\ lastSummaryCount' =
           FromKV(lastSummaryCount,
                  LoadedSummaryCount(lastSummaryCount, kvStore.summaryCount))
      /\ nextText' = IF called THEN nextText + 1 ELSE nextText
      /\ kvStore' = IF result # 0 /\ kv
                      THEN [kvStore EXCEPT !.overall = result]
                      ELSE kvStore
      /\ apiLog' = Append(apiLog, [request |-> "regenerate",
                                    result |-> result, called |-> called])
      /\ UNCHANGED <<kv, today, pc, conversationHistory, histWrites, tasks,
                     nAppended, started, faults, generated>>
      /\ UNCHANGED sanitizerVars
      /\ UNCHANGED assemblerVars
      /\ UNCHANGED prompts
      /\ UNCHANGED <<passes, outbox, kvErrors>>

\* A conversation of StartTurns turns goes on, one request at a time:
\* messages and requests for the overall summary.
ApiNext ==
  \/ Quiescent /\ StartTurn(1)
  \/ Quiescent /\ CompleteHistory
  \/ Quiescent /\ RegenerateOverall
  \/ LoadFromKV(1) /\ faults' = faults
  \/ Reply(1) /\ faults' = faults
  \/ \E w \in histWrites : HistoryKvSet(w) /\ faults' = faults
  \/ \E i \in Slots : SummaryGenerated(i) /\ faults' = faults
  \/ \E i \in Slots : SummaryKvSet(i) /\ faults' = faults
  \/ \E i \in Slots : SummaryCountKvSet(i) /\ faults' = faults
  \/ \E i \in Slots : ClinicalGenerated(i) /\ faults' = faults
  \/ \E i \in Slots : ClinicalKvSet(i) /\ faults' = faults
  \/ \E i \in Slots : ClinicalReload(i) /\ faults' = faults
  \/ \E i \in Slots : DiaryGenerated(i) /\ faults' = faults
  \/ \E i \in Slots : DiaryKvSet(i) /\ faults' = faults
  \/ \E i \in Slots : DiaryEntryDateKvSet(i) /\ faults' = faults
  \/ \E i \in Slots : DiaryDateKvSet(i) /\ faults' = faults

ApiSpec == Init /\ [][ApiNext]_vars

\* ---------------------------------------------------------------------
\* The diary prompt: the trigger of the webhook (lines 2072-2128) and the
\* prompt generateDailyDiaryEntry builds (lines 2957-2985), applied to a
\* conversation in any state the process can hold: turns in the order they
\* were appended, none dated after today; a diary with one entry per date,
\* most recent first, as saveDailyDiaryEntry sorts it (line 3051); a diary
\* date that is absent or the date of an entry.
\* ---------------------------------------------------------------------
MaxDiaryDay == 5      \* calendar days of the conversations explored
MaxDiaryTurns == 2    \* turns in the history of those conversations

SetMax(S) == CHOOSE x \in S : \A y \in S : y <= x

Histories(day) ==
  UNION {{[n \in 1..len |-> Turn(n, dates[n])] :
            dates \in {d \in [1..len -> 1..day] :
                         \A a, b \in 1..len : a < b => d[a] <= d[b]}} :
         len \in 0..MaxDiaryTurns}

RECURSIVE DiaryOf(_)
\* The diary with an entry for each date of D.
DiaryOf(D) ==
  IF D = {} THEN <<>>
  ELSE LET m == SetMax(D)
       IN  <<[date |-> m, summary |-> m, messageCount |-> 1]>>
             \o DiaryOf(D \ {m})

\* diaryEntries.slice(-3), line 2964.
PreviousDiary(diaryEntries) ==
  IF Len(diaryEntries) <= 3 THEN diaryEntries
  ELSE SubSeq(diaryEntries, Len(diaryEntries) - 2, Len(diaryEntries))

DiaryInit ==
  /\ \E day \in 1..MaxDiaryDay : \E D \in SUBSET (1..day) :
       /\ today = day
       /\ conversationHistory \in Histories(day)
       /\ dailyDiary = DiaryOf(D)
       /\ lastDiaryDate \in {0} \cup D
  /\ kv = FALSE
  /\ pc = [h \in Handlers |-> "idle"]
  /\ conversationSummaries = NoSummaries
  /\ lastSummaryCount = 0
  /\ clinicalHistory = <<>>
  /\ kvStore = EmptyStore
  /\ histWrites = {}
  /\ tasks = [i \in Slots |-> NoTask]
  /\ nAppended = Len(conversationHistory)
  /\ started = 0
  /\ nextText = 1
  /\ faults = 0
  /\ generated = {}
  /\ apiLog = <<>>
  /\ passes = {}
  /\ outbox = <<>>
  /\ kvErrors = {}
  /\ prompts = {}
  /\ rawReply = <<>>
  /\ responses = <<>>
  /\ IdleAssembler

\* Step 8 of the webhook on the history as it is: whether
\* generateDailyDiaryEntry is called and, if so, the turns and the earlier
\* entries its prompt holds.
BuildDiaryPrompt ==
  /\ prompts = {}
  /\ LET messagesToUse ==
            MessagesToUse(conversationHistory, lastDiaryDate, today)
         called == /\ ShouldGenerateDiary(conversationHistory, lastDiaryDate,
                                          today)
                   /\ messagesToUse # <<>>
     IN  prompts' =
           {[started |-> called,
             turns |-> IF called THEN messagesToUse ELSE <<>>,
             previous |-> IF called THEN PreviousDiary(dailyDiary) ELSE <<>>]}
  /\ UNCHANGED <<kv, today, pc, procVars, kvStore, histWrites, tasks,
                 nAppended, started, nextText, faults, generated, apiLog,
                 passes, outbox, kvErrors>>
  /\ UNCHANGED sanitizerVars
  /\ UNCHANGED assemblerVars

DiaryNext == BuildDiaryPrompt

DiarySpec == DiaryInit /\ [][DiaryNext]_vars

\* =====================================================================
\* The prompt of a reply (generateResponse, src/index.js:2220-2306)
\* =====================================================================
\* The system prompt is a sequence of parts, each a text the code appends
\* as a whole: "base" (the prompt stored from the panel), "minimum" (the
\* one-line prompt used when the stored one is empty), "summaries" (the
\* output of formatSummariesForContext), "useMemory" (the sentence that
\* follows it), "documentation" (the block headed DOCUMENTACIÓN
\* DISPONIBLE, which a prompt saved from the panel may already hold),
\* "reviewDocs" (the sentence closing that block) and "final" (the
\* INSTRUCCIÓN FINAL CRÍTICA).
ConfigPrompts == {<<>>, <<"base">>, <<"base", "documentation">>}

\* lines 2243-2251: an empty stored prompt is replaced.
BasePrompt(configPrompt) ==
  IF configPrompt = <<>> THEN <<"minimum">> ELSE configPrompt

\* Variant: the summaries are placed before the instructions.
WithSummariesFirst(systemPrompt, summaries) ==
  IF Keys(summaries) # {}
    THEN <<"summaries", "useMemory">> \o systemPrompt
    ELSE systemPrompt

\* lines 2256-2267
WithSummaries(systemPrompt, summaries) ==
  IF Keys(summaries) # {}
    THEN systemPrompt \o <<"summaries", "useMemory">>
    ELSE systemPrompt

\* lines 2271-2284
WithDocumentation(systemPrompt, docs) ==
  IF docs /\ "documentation" \notin Range(systemPrompt)
    THEN systemPrompt \o <<"documentation", "reviewDocs">>
    ELSE systemPrompt

\* lines 2251-2287
SystemPrompt(configPrompt, summaries, docs) ==
  WithDocumentation(WithSummaries(BasePrompt(configPrompt), summaries), docs)
    \o <<"final">>

\* A message of the request: its role, its content as parts and, for a
\* content taken from a turn of the history, the turn (0 otherwise).
RECURSIVE HistoryMessages(_)
\* history.forEach, lines 2299-2304
HistoryMessages(history) ==
  IF history = <<>> THEN <<>>
  ELSE <<[role |-> "user", content |-> <<"msg.user">>,
          turn |-> Head(history).id],
         [role |-> "assistant", content |-> <<"msg.bot">>,
          turn |-> Head(history).id]>>
         \o HistoryMessages(Tail(history))

\* lines 2294-2307
Messages(configPrompt, summaries, docs, history) ==
  <<[role |-> "system",
     content |-> SystemPrompt(configPrompt, summaries, docs), turn |-> 0]>>
    \o HistoryMessages(history)
    \o <<[role |-> "user", content |-> <<"message">>, turn |-> 0]>>

\* The summaries a conversation can hold when a reply is generated: none,
\* one or two under one category, some under two categories.
PromptSummaries ==
  {CleanSummaries(0), CleanSummaries(MAX_SUMMARY_MESSAGES),
   CleanSummaries(2 * MAX_SUMMARY_MESSAGES),
   [CleanSummaries(MAX_SUMMARY_MESSAGES)
      EXCEPT !["Ansiedad y estrés"] = CleanSummaryList(1)]}

PromptInit ==
  /\ today = MaxDay
  /\ conversationHistory \in Histories(MaxDay)
  /\ conversationSummaries \in PromptSummaries
  /\ systemPromptConfig \in ConfigPrompts
  /\ instructionDocs \in BOOLEAN
  /\ requestMessages = <<>>
  /\ kv = FALSE
  /\ pc = [h \in Handlers |-> "idle"]
  /\ lastSummaryCount = 0
  /\ clinicalHistory = <<>>
  /\ dailyDiary = <<>>
  /\ lastDiaryDate = 0
  /\ kvStore = EmptyStore
  /\ histWrites = {}
  /\ tasks = [i \in Slots |-> NoTask]
  /\ nAppended = Len(conversationHistory)
  /\ started = 0
  /\ nextText = 1
  /\ faults = 0
  /\ generated = {}
  /\ apiLog = <<>>
  /\ passes = {}
  /\ outbox = <<>>
  /\ kvErrors = {}
  /\ prompts = {}
  /\ rawReply = <<>>
  /\ responses = <<>>

\* generateResponse builds the array it posts to the completions endpoint.
AssembleMessages ==
  /\ requestMessages = <<>>
  /\ requestMessages' = Messages(systemPromptConfig, conversationSummaries,
                                 instructionDocs, conversationHistory)
  /\ UNCHANGED <<systemPromptConfig, instructionDocs, engineVars,
                 sanitizerVars>>

PromptNext == AssembleMessages

PromptSpec == PromptInit /\ [][PromptNext]_vars

\* =====================================================================
\* The sanitizer of generateResponse (src/index.js:2351-2409)
\* =====================================================================
\* A text is a sequence of tokens.  A token is one character the regular
\* expressions of the sanitizer look at on its own (the speech balloon,
\* a blank, a line feed, a punctuation mark) or one of the phrases they
\* spell out; the match is case-insensitive, so a phrase token stands for
\* any capitalisation of it.  Texto is any other word.
Balloon == "(speech balloon)"     \* the character U+1F4AC
Space == " "
Newline == "\n"
ElRincon == "El Rincón de Patri"
TuPsicologo == "tu psicólogo virtual"
TuRincon == "Tu Rincón"
BotVersion == "V.1.1"
Texto == "texto"
DefaultResponse ==
  "Lo siento, no pude generar una respuesta adecuada. ¿Puedes reformular tu mensaje?"

Whitespace == {Space, Newline}

GreetingTokens ==
  {"¡", "Hola", "!", ",", "Patri", "Soy", "Estoy", "Eres", "¿Cómo estás",
   "hoy?", "aquí para escucharte",
   "¿Hay algo en particular que te gustaría compartir"}

ReplyTokens ==
  {Balloon, Space, Newline, ElRincon, TuPsicologo, TuRincon, BotVersion, Texto}
    \cup GreetingTokens

\* The tokens the signature handling distinguishes when no blank is around.
SignatureTokens == {Balloon, ElRincon, Newline, Texto}

\* Raw replies explored: every text of at most MaxReplyLen tokens, and every
\* text of at most MaxSignatureReplyLen tokens over SignatureTokens.
MaxReplyLen == 3
MaxSignatureReplyLen == 7

RECURSIVE TextsUpTo(_, _)
TextsUpTo(tokens, n) ==
  IF n = 0 THEN {<<>>}
  ELSE LET shorter == TextsUpTo(tokens, n - 1)
       IN shorter \cup {Append(t, tok) : t \in shorter, tok \in tokens}

\* content is non-empty: generateResponse throws on an empty content
\* (line 2346) before the sanitizer runs.
RawReplies ==
  (TextsUpTo(ReplyTokens, MaxReplyLen)
     \cup TextsUpTo(SignatureTokens, MaxSignatureReplyLen)) \ {<<>>}

At(s, i) == IF i \in 1..Len(s) THEN s[i] ELSE ""

Drop(s, n) == IF n >= Len(s) THEN <<>> ELSE SubSeq(s, n + 1, Len(s))

StartsWith(s, p) == Len(s) >= Len(p) /\ SubSeq(s, 1, Len(p)) = p

\* Length of the longest prefix of s made of tokens of set.
RECURSIVE Run(_, _)
Run(s, set) ==
  IF s # <<>> /\ Head(s) \in set THEN 1 + Run(Tail(s), set) ELSE 0

\* Length of the longest prefix of s without a line feed: what `.*?$`
\* consumes under the flags g and m.
RECURSIVE LineRest(_)
LineRest(s) ==
  IF s # <<>> /\ Head(s) # Newline THEN 1 + LineRest(Tail(s)) ELSE 0

\* String.prototype.trim
RECURSIVE TrimEnd(_)
TrimEnd(s) ==
  IF s # <<>> /\ s[Len(s)] \in Whitespace
    THEN TrimEnd(SubSeq(s, 1, Len(s) - 1))
    ELSE s

Trim(s) == TrimEnd(Drop(s, Run(s, Whitespace)))

\* genericPatterns (lines 2359-2366): the length of the match of the p-th
\* pattern at the start of s, 0 when it does not match.
\*   1  /^¡?Hola!?\s*(Soy|Estoy|Eres|¿Cómo estás)/i
GenericHola(s) ==
  LET a == IF At(s, 1) = "¡" THEN 1 ELSE 0
      b == IF At(s, a + 2) = "!" THEN a + 2 ELSE a + 1
      w == Run(Drop(s, b), Whitespace)
  IN IF At(s, a + 1) = "Hola"
          /\ At(s, b + w + 1) \in {"Soy", "Estoy", "Eres", "¿Cómo estás"}
       THEN b + w + 1
       ELSE 0

\*   2  /^Hola\s+(Patri\s+)?(,|,?\s+)?(soy|estoy|¿cómo estás)/i
GenericHolaPatri(s) ==
  LET w1 == Run(Drop(s, 1), Whitespace)
      hasPatri == At(s, w1 + 2) = "Patri"
      w2 == IF hasPatri THEN Run(Drop(s, w1 + 2), Whitespace) ELSE 0
      q == IF hasPatri THEN w1 + 2 + w2 ELSE w1 + 1
      c == IF At(s, q + 1) = "," THEN q + 1 ELSE q
      w3 == Run(Drop(s, c), Whitespace)
  IN IF At(s, 1) = "Hola" /\ w1 >= 1 /\ (hasPatri => w2 >= 1)
          /\ At(s, c + w3 + 1) \in {"Soy", "Estoy", "¿Cómo estás"}
       THEN c + w3 + 1
       ELSE 0

\*   3..6  literal phrases
GenericPhrase(p) ==
  CASE p = 3 -> <<"Estoy", Space, "aquí para escucharte">>
    [] p = 4 -> <<"¿Hay algo en particular que te gustaría compartir">>
    [] p = 5 -> <<"¿Cómo estás", Space, "hoy?">>
    [] p = 6 -> <<"Soy", Space, TuPsicologo>>

GenericMatch(p, s) ==
  CASE p = 1 -> GenericHola(s)
    [] p = 2 -> GenericHolaPatri(s)
    [] OTHER -> IF StartsWith(s, GenericPhrase(p)) THEN Len(GenericPhrase(p)) ELSE 0

\* genericPatterns.forEach (lines 2368-2373), from the p-th pattern on
RECURSIVE StripGenericPatterns(_, _)
StripGenericPatterns(s, p) ==
  IF p > 6 THEN s
  ELSE LET n == GenericMatch(p, s)
       IN StripGenericPatterns(IF n > 0 THEN Trim(Drop(s, n)) ELSE s, p + 1)

\* /<balloon>\s*<phrase>/ at the start of s: the length of the match
MarkerMatch(s, phrase) ==
  LET w == Run(Drop(s, 1), Whitespace)
  IN IF At(s, 1) = Balloon /\ At(s, w + 2) = phrase THEN w + 2 ELSE 0

\* oldSignatures (lines 2376-2383): the length of the match of the k-th
\* element at the start of s, 0 when it does not match.  The first three are
\* literals (one blank after the balloon), the last three regular expressions.
SignatureMatch(k, s) ==
  CASE k = 1 -> IF StartsWith(s, <<Balloon, Space, TuPsicologo>>) THEN 3 ELSE 0
    [] k = 2 -> IF StartsWith(s, <<Balloon, Space, TuRincon>>) THEN 3 ELSE 0
    [] k = 3 -> IF StartsWith(s, <<Balloon, Space, ElRincon>>) THEN 3 ELSE 0
    [] k = 4 -> MarkerMatch(s, TuPsicologo)
    [] k = 5 -> MarkerMatch(s, TuRincon)
    [] k = 6 -> LET n == MarkerMatch(s, ElRincon)
                IN IF n > 0 THEN n + LineRest(Drop(s, n)) ELSE 0

\* String.prototype.replace with a global pattern: matches are taken from
\* left to right in the original text and do not overlap.
RECURSIVE ReplaceAll(_, _, _)
ReplaceAll(s, k, replacement) ==
  IF s = <<>> THEN <<>>
  ELSE LET n == SignatureMatch(k, s)
       IN IF n > 0
            THEN replacement \o ReplaceAll(Drop(s, n), k, replacement)
            ELSE <<Head(s)>> \o ReplaceAll(Tail(s), k, replacement)

\* oldSignatures.forEach (lines 2385-2392), from the k-th element on
RECURSIVE RemoveOldSignatures(_, _)
RemoveOldSignatures(s, k) ==
  IF k > 6 THEN s ELSE RemoveOldSignatures(ReplaceAll(s, k, <<>>), k + 1)

\* replace(/\n{3,}/g, '\n\n') (line 2395)
RECURSIVE CollapseNewlines(_)
CollapseNewlines(s) ==
  IF s = <<>> THEN <<>>
  ELSE LET n == Run(s, {Newline})
       IN IF n >= 3 THEN <<Newline, Newline>> \o CollapseNewlines(Drop(s, n))
          ELSE IF n > 0 THEN SubSeq(s, 1, n) \o CollapseNewlines(Drop(s, n))
          ELSE <<Head(s)>> \o CollapseNewlines(Tail(s))

\* `<balloon> El Rincón de Patri ${botVersion}` (lines 2398-2399)
Signature == <<Balloon, Space, ElRincon, Space, BotVersion>>

\* response.match(/<balloon>\s*El Rincón de Patri/i) (line 2402)
HasMarker(s) == \E i \in 1..Len(s) : MarkerMatch(Drop(s, i - 1), ElRincon) > 0

\* lines 2402-2407
AddSignature(s) ==
  IF ~HasMarker(s)
    THEN s \o <<Newline, Newline>> \o Signature
    ELSE ReplaceAll(s, 6, Signature)

\* lines 2351-2409
Sanitize(content) ==
  LET trimmed == Trim(content)
      response == IF trimmed = <<>> THEN <<DefaultResponse>> ELSE trimmed
      noGeneric == StripGenericPatterns(response, 1)
      noSignature == RemoveOldSignatures(noGeneric, 1)
      clean == Trim(CollapseNewlines(noSignature))
  IN AddSignature(clean)

SanitizerInit ==
  /\ CleanState(0, FALSE)
  /\ rawReply \in RawReplies
  /\ responses = <<>>
  /\ IdleAssembler

\* generateResponse sanitizes the completion it received.
SanitizeReply ==
  /\ responses = <<>>
  /\ responses' = <<Sanitize(rawReply)>>
  /\ UNCHANGED <<rawReply, engineVars, assemblerVars>>

\* The sanitizer runs on a completion that is its own previous output.
SanitizeAgain ==
  /\ Len(responses) = 1
  /\ responses' = Append(responses, Sanitize(responses[1]))
  /\ UNCHANGED <<rawReply, engineVars, assemblerVars>>

SanitizerNext ==
  \/ SanitizeReply
  \/ SanitizeAgain

SanitizerSpec == SanitizerInit /\ [][SanitizerNext]_vars

\* =====================================================================
\* Properties
\* =====================================================================
NotesAt(notes, c) == {i \in DOMAIN notes : notes[i].messageCount = c}

EntriesOf(diary, d) == {i \in DOMAIN diary : diary[i].date = d}

ClinicalRunsAt(c) == {g \in generated : g.kind = "clinical" /\ g.trig = c}

\* C1 - Idempotent clinical notes: when the clinical-note trigger logic has
\* run twice at the same count c (both runs passed the guard at history
\* length c and both got a text from the generation service), exactly one
\* note with messageCount = c is in the conversation's note list.
IdempotentClinicalNotes ==
  \A c \in 1..MAX_HISTORY_MESSAGES :
    Cardinality(ClinicalRunsAt(c)) >= 2
      => Cardinality(NotesAt(clinicalHistory, c)) = 1

\* C2 - History content: the history buffer is exactly the last
\* min(n, H) turns appended, in append order, n being the number of turns
\* appended so far (turns are numbered in append order).
HistoryContent ==
  /\ Len(conversationHistory) = Min(nAppended, MAX_HISTORY_MESSAGES)
  /\ \A i \in DOMAIN conversationHistory :
       conversationHistory[i].id = nAppended - Len(conversationHistory) + i

\* C3 - History bound: the buffer (and every list sent to or held by the
\* durable store) never holds more than H turns, and an append to a full
\* buffer gives the old buffer without its first turn, followed by the new
\* turn.
HistoryBounded ==
  /\ Len(conversationHistory) <= MAX_HISTORY_MESSAGES
  /\ Len(kvStore.history) <= MAX_HISTORY_MESSAGES
  /\ \A w \in histWrites : Len(w) <= MAX_HISTORY_MESSAGES

EvictsOldest ==
  (nAppended' = nAppended + 1
     /\ Len(conversationHistory) = MAX_HISTORY_MESSAGES)
  => /\ Len(conversationHistory') = MAX_HISTORY_MESSAGES
     /\ \A i \in 1..(MAX_HISTORY_MESSAGES - 1) :
          conversationHistory'[i] = conversationHistory[i + 1]
     /\ conversationHistory'[MAX_HISTORY_MESSAGES].id = nAppended'

HistoryBound == []HistoryBounded /\ [][EvictsOldest]_vars

\* C3 witness: a turn was appended to a full buffer, which now holds H
\* turns, the oldest one gone.
HistoryEvicted ==
  /\ nAppended = MAX_HISTORY_MESSAGES + 1
  /\ Len(conversationHistory) = MAX_HISTORY_MESSAGES
  /\ conversationHistory[1].id = 2
  /\ conversationHistory[MAX_HISTORY_MESSAGES].id = nAppended

\* C4 - Summary-marker monotonicity: lastSummaryCount never decreases.
SummaryMarkerMonotonic == [][lastSummaryCount' >= lastSummaryCount]_vars

\* C5 - Diary-marker monotonicity: lastDiaryDate never moves to an earlier
\* date.
DiaryMarkerMonotonic == [][lastDiaryDate' >= lastDiaryDate]_vars

\* The step in which the summarize call of chain i fails.
SummarizeFails(i) ==
  /\ tasks[i].kind = "summary" /\ tasks[i].pc = "gen"
  /\ tasks'[i].pc # "gen"
  /\ faults' = faults + 1

\* C6 - When the summarize step of a pass fails, the pass leaves
\* lastSummaryCount unchanged, so the trigger condition
\* count >= lastSummaryCount + N still holds afterwards.
MarkerKeptOnFailure ==
  [][\A i \in Slots :
       SummarizeFails(i)
         => /\ lastSummaryCount' = lastSummaryCount
            /\ ShouldSummarize(conversationHistory', lastSummaryCount')]_vars

\* The step in which chain i gets its diary text and saves it.
DiarySaves(i) ==
  /\ tasks[i].kind = "diary" /\ tasks[i].pc = "gen"
  /\ tasks'[i].pc # "gen"
  /\ faults' = faults

DiaryOnePerDate ==
  \A d \in 1..MaxDay :
    /\ Cardinality(EntriesOf(dailyDiary, d)) <= 1
    /\ Cardinality(EntriesOf(kvStore.diary, d)) <= 1

SaveKeepsLatest ==
  \A i \in Slots :
    DiarySaves(i)
      => /\ Cardinality(EntriesOf(dailyDiary', tasks[i].date)) = 1
         /\ \A j \in EntriesOf(dailyDiary', tasks[i].date) :
              dailyDiary'[j].summary = tasks[i].text
         /\ {dailyDiary'[j] : j \in DOMAIN dailyDiary'}
              \ {e \in Range(dailyDiary') : e.date = tasks[i].date}
            = {e \in Range(dailyDiary) : e.date # tasks[i].date}

SummaryWritten(i) ==
  /\ tasks[i].kind = "summary" /\ tasks[i].pc = "gen"
  /\ tasks'[i].pc # "gen"
  /\ faults' = faults

CategoryCapped ==
  \A c \in Categories :
    /\ Len(conversationSummaries[c]) <= MAX_SUMMARIES_PER_CATEGORY
    /\ Len(kvStore.summaries[c]) <= MAX_SUMMARIES_PER_CATEGORY

OldestSummaryRemoved ==
  \A i \in Slots :
    SummaryWritten(i)
      => \E c \in Categories :
           LET old == conversationSummaries[c]
               new == conversationSummaries'[c]
           IN  /\ \A c2 \in Categories \ {c} :
                    conversationSummaries'[c2] = conversationSummaries[c2]
               /\ new # <<>> /\ new[Len(new)].summary = tasks[i].text
               /\ IF Len(old) = MAX_SUMMARIES_PER_CATEGORY
                    THEN /\ Len(new) = MAX_SUMMARIES_PER_CATEGORY
                         /\ \A j \in 1..(Len(new) - 1) : new[j] = old[j + 1]
                    ELSE /\ Len(new) = Len(old) + 1
                         /\ \A j \in 1..Len(old) : new[j] = old[j]

\* C8 - Category cap: every category's list has at most K entries, in the
\* process and in the durable store, and a pass that adds to a list of K
\* entries removes its oldest (first) entry.
CategoryCap == []CategoryCapped /\ [][OldestSummaryRemoved]_vars

\* C8 witness: from the four summaries of a 49-turn conversation, two more
\* passes have filled the category and the oldest summary (text 2) is gone.
CategoryEvicted ==
  /\ Len(conversationSummaries["Otros"]) = MAX_SUMMARIES_PER_CATEGORY
  /\ conversationSummaries["Otros"][1].summary = 4
  /\ Cardinality({g \in generated : g.kind = "summary"}) = 2

\* ---------------------------------------------------------------------
\* C9.  Sanitizer idempotence: sanitizing the sanitizer's own output gives
\* that output back unchanged, sanitize(sanitize(r)) = sanitize(r), for
\* every raw reply r.
SanitizerIdempotent == Len(responses) = 2 => responses[2] = responses[1]

\* ---------------------------------------------------------------------
\* C10.  For every raw reply, the sanitized text contains the signature line
\* of the current format exactly once, and the text ends with it.
SignatureCount(s) ==
  Cardinality({i \in 1..Len(s) : StartsWith(Drop(s, i - 1), Signature)})

EndsWithSignature(s) ==
  Len(s) >= Len(Signature)
    /\ SubSeq(s, Len(s) - Len(Signature) + 1, Len(s)) = Signature

SignatureOnceAtEnd ==
  responses # <<>> =>
    SignatureCount(responses[1]) = 1 /\ EndsWithSignature(responses[1])

\* ---------------------------------------------------------------------
\* C11.  The count the summary and clinical-note triggers use keeps
\* increasing after the history has reached MAX_HISTORY_MESSAGES: in a
\* conversation handled one turn at a time with every generation
\* succeeding, once the work of turn n is finished a category summary and a
\* clinical note have been generated for each multiple of ten up to n, at
\* turn 60 just as at turns 10, 20, 30, 40 and 50.
PassesOf(kind) == Cardinality({g \in generated : g.kind = kind})

PassEveryTenTurns ==
  Quiescent /\ started = nAppended =>
    /\ PassesOf("summary") = nAppended \div MAX_SUMMARY_MESSAGES
    /\ PassesOf("clinical") = nAppended \div CLINICAL_NOTES_INTERVAL

\* ---------------------------------------------------------------------
\* C12.  In every reachable state no two clinical notes of the conversation
\* have the same messageCount, in the process and in KV.
DistinctCounts(notes) ==
  \A i, j \in DOMAIN notes : i # j => notes[i].messageCount # notes[j].messageCount

NoteCountsDistinct ==
  DistinctCounts(clinicalHistory) /\ DistinctCounts(kvStore.clinical)

\* ---------------------------------------------------------------------
\* C13.  Ten-turn scenario: a new conversation receives 10 turns one at a
\* time on one calendar day, every generation succeeds and each turn's
\* background work finishes before the next turn.  After the 10th turn
\* lastSummaryCount is 10, there is exactly one category summary, exactly
\* one clinical note, whose messageCount is 10, and exactly one diary entry,
\* for that day.
SummariesOf(sums) ==
  UNION {{<<c, i>> : i \in DOMAIN sums[c]} : c \in Categories}

AfterTenTurns == Quiescent /\ started = 10 /\ nAppended = 10 /\ today = 1

StoreMirrorsProcess ==
  /\ kvStore.history = conversationHistory
  /\ kvStore.summaries = conversationSummaries
  /\ kvStore.summaryCount = lastSummaryCount
  /\ kvStore.clinical = clinicalHistory
  /\ kvStore.diary = dailyDiary
  /\ kvStore.diaryDate = lastDiaryDate

\* The entries of log[1..n] whose generation call returned a text.
Generating(log, n) == {i \in 1..n : log[i].called /\ log[i].result # 0}

\* What the key overall:summary of a configured backend holds after the
\* requests log[1..n]: the text generated last, 0 when there is none.
ConfiguredOverall(log, n) ==
  IF Generating(log, n) = {} THEN 0
  ELSE log[CHOOSE i \in Generating(log, n) :
             \A j \in Generating(log, n) : j <= i].result

AnsweredAsConfigured(log) ==
  \A j \in DOMAIN log :
    log[j].request = "view" /\ ConfiguredOverall(log, j - 1) # 0 =>
      log[j].result = ConfiguredOverall(log, j - 1) /\ ~log[j].called

DegradedEquivalence ==
  /\ kv /\ Quiescent => StoreMirrorsProcess
  /\ AnsweredAsConfigured(apiLog)

\* ---------------------------------------------------------------------
\* C15.  Overall summary caching: once a request for the complete history
\* has generated an overall summary, every later request for the complete
\* history (until an explicit regeneration) returns that same text and
\* makes no call to the generation service, with and without KV.
ViewAnswered ==
  /\ Len(apiLog') = Len(apiLog) + 1
  /\ apiLog'[Len(apiLog')].request = "view"

\* The text a request for the complete history generated, when no
\* regeneration was requested since; 0 when there is none.
CachedByView(log) ==
  IF \E i \in Generating(log, Len(log)) :
       /\ log[i].request = "view"
       /\ \A j \in (i + 1)..Len(log) : log[j].request = "view"
    THEN ConfiguredOverall(log, Len(log))
    ELSE 0

OverallCached ==
  [][ViewAnswered /\ CachedByView(apiLog) # 0 =>
       /\ apiLog'[Len(apiLog')].result = CachedByView(apiLog)
       /\ ~apiLog'[Len(apiLog')].called]_vars

\* ---------------------------------------------------------------------
\* C16: for each of the three background generators, if the pass started at
\* one turn failed in its generation call, then the webhook call that
\* appends the next turn starts a new pass of that generator.
\* ---------------------------------------------------------------------
\* The generation call of pass p has returned without a text.
GenerationFailed(p) ==
  /\ ~ \E g \in generated : g.text = p.text
  /\ ~ \E i \in Slots : tasks[i].text = p.text /\ tasks[i].pc = "gen"

RetryAtNextTurn ==
  [][nAppended' = nAppended + 1 =>
       \A p \in passes :
         p.turn = nAppended /\ GenerationFailed(p) =>
           \E q \in passes' \ passes : q.kind = p.kind]_vars

\* ---------------------------------------------------------------------
\* C17: when generateResponse fails, the handler sends the user the fixed
\* apology and nothing else, answers Telegram with status 200 and ends.
\* ---------------------------------------------------------------------
\* Handler h gets the failure of its generateResponse call in this step.
ReplyFailed(h) == pc[h] = "reply" /\ pc'[h] = "idle" /\ faults' = faults + 1

ApologyOnFailure ==
  [][\A h \in Handlers :
       ReplyFailed(h) => outbox' = outbox \o <<"apology", "200">>]_vars

\* A handler has sent the apology.
ApologySent == \E n \in DOMAIN outbox : outbox[n] = "apology"

\* ---------------------------------------------------------------------
\* C18: a failure inside a background chain (generation or saving) sends
\* nothing to the user and changes nothing of what the webhook has sent;
\* the handler that starts a chain has delivered its reply and answered
\* with status 200 while the chain is still at its generation call.
\* ---------------------------------------------------------------------
\* A call made by a promise chain fails in this step.
ChainFailed == pc' = pc /\ tasks' # tasks /\ faults' = faults + 1

\* Pass p is waiting for its generation call.
AtGeneration(ts, p) ==
  \E i \in Slots : ts[i].text = p.text /\ ts[i].kind = p.kind /\ ts[i].pc = "gen"

BackgroundFailureSilent ==
  [][/\ ChainFailed => outbox' = outbox
     /\ \A p \in passes' \ passes :
          /\ outbox' = outbox \o <<"reply", "200">>
          /\ AtGeneration(tasks', p)]_vars

\* The generation call of a chain has failed after the reply of the turn
\* that started it was delivered.
ChainFailedAfterReply ==
  /\ \E p \in passes : GenerationFailed(p)
  /\ outbox = <<"reply", "200">>

\* ---------------------------------------------------------------------
\* C19: a KV read that fails during a turn (summaries, clinical notes,
\* diary, history, configuration) leaves the handler on its way to the
\* generation call, a handler whose generation and delivery succeed sends
\* the reply whatever failed before, and a failed kv.set of the history
\* changes neither a handler nor what was sent.
\* ---------------------------------------------------------------------
\* The kv.set of a history snapshot fails in this step.
HistoryWriteFailed == histWrites' # histWrites /\ pc' = pc /\ faults' = faults + 1

KvFailureRecovered ==
  [][/\ \A h \in Handlers :
          /\ pc[h] = "load" /\ pc'[h] # "load" => pc'[h] = "reply"
          /\ pc[h] = "reply" /\ pc'[h] = "idle" /\ faults' = faults =>
               outbox' = outbox \o <<"reply", "200">>
     /\ HistoryWriteFailed => outbox' = outbox]_vars

\* One webhook call has run to its end and delivered its reply after one
\* of its KV reads failed: no other call has returned yet (the history
\* write is in flight, every chain started is at its generation call), so
\* the failure counted is the one of a read.
ReplyAfterKvReadFailure ==
  /\ kv /\ faults = 1 /\ started = 1
  /\ \A h \in Handlers : pc[h] = "idle"
  /\ outbox = <<"reply", "200">>
  /\ histWrites # {}
  /\ passes # {}
  /\ \A p \in passes : AtGeneration(tasks, p)

\* ---------------------------------------------------------------------
\* C20: once the history of the conversation holds turns appended by this
\* process, the loads at the start of a later webhook call leave the
\* history as it is, whatever KV holds.
\* ---------------------------------------------------------------------
\* This process has appended a turn (saveMessage follows the delivery of
\* the reply without suspension).
Hydrated == conversationHistory # <<>> /\ \E n \in DOMAIN outbox : outbox[n] = "reply"

LoadKeepsHydrated ==
  [][\A h \in Handlers :
       pc[h] = "load" /\ pc'[h] = "reply" /\ Hydrated =>
         conversationHistory' = conversationHistory]_vars

\* ---------------------------------------------------------------------
\* C21: after the kv.set of a tier (summaries, summary counter, clinical
\* notes, diary) has thrown, a load from KV leaves the value of that tier
\* the process holds, the one whose write failed, in place.
\* ---------------------------------------------------------------------
\* The value the process holds for the tier stored under `key`.
InProcess(key) ==
  CASE key = "summaries" -> conversationSummaries
    [] key = "summaryCount" -> lastSummaryCount
    [] key = "clinical" -> clinicalHistory
    [] key = "diary" -> dailyDiary
    [] key = "diaryDate" -> lastDiaryDate
    [] OTHER -> conversationHistory

\* A load function returns in this step: the loads of a webhook call, or
\* the reload that ends the clinical note chain.
LoadStep ==
  \/ \E h \in Handlers : pc[h] = "load" /\ pc'[h] # "load"
  \/ \E i \in Slots : tasks[i].pc = "reload" /\ tasks'[i] = NoTask

TierKeys == {"summaries", "summaryCount", "clinical", "diary"}

ProcessValueKept ==
  [][\A e \in kvErrors :
       e.key \in TierKeys /\ InProcess(e.key) = e.value /\ LoadStep =>
         InProcess(e.key)' = e.value]_vars

\* ---------------------------------------------------------------------
\* C22: a turn is appended and chains are started only by the handler that
\* has just delivered its reply; a handler whose generation or delivery
\* failed appends nothing, starts nothing and leaves every tier and marker,
\* in the process and in KV, as they were.
\* ---------------------------------------------------------------------
NothingSaved ==
  UNCHANGED <<procVars, nAppended, tasks, passes, histWrites, kvStore>>

FailedPassStep(i, kind) ==
  /\ tasks[i].kind = kind
  /\ tasks'[i] # tasks[i]
  /\ pc' = pc
  /\ ~ \E g \in generated' : g.text = tasks[i].text

FailedSummaryWritesNothing ==
  [][\A i \in Slots :
       FailedPassStep(i, "summary") =>
         /\ conversationSummaries' = conversationSummaries
         /\ kvStore'.summaries = kvStore.summaries]_vars

\* The generation call of a summarization pass has failed.
SummaryPassFailed ==
  \E p \in passes : p.kind = "summary" /\ GenerationFailed(p)

\* ---------------------------------------------------------------------
\* C24: a step of a summarization pass changes lastSummaryCount, in the
\* process or in KV, only if the pass has appended a summary (its
\* generation call returned a text) and no kv.set of the summaries threw.
\* ---------------------------------------------------------------------
\* The chain in slot i takes a step that changes the counter.
AdvancesMarker(i) ==
  /\ tasks[i].kind = "summary"
  /\ tasks'[i] # tasks[i]
  /\ pc' = pc
  /\ \/ lastSummaryCount' # lastSummaryCount
     \/ kvStore'.summaryCount # kvStore.summaryCount

MarkerOnlyAfterPersist ==
  [][\A i \in Slots :
       AdvancesMarker(i) =>
         /\ \E g \in generated' : g.text = tasks[i].text
         /\ ~ \E e \in kvErrors' : e.key = "summaries"]_vars

\* ---------------------------------------------------------------------
\* C25: the counter a successful summarization pass writes, in the process
\* and in KV, is the number of turns the history had when the pass was
\* triggered, whatever was appended while the pass was running.
\* ---------------------------------------------------------------------
MarkerIsTriggerCount ==
  [][\A i \in Slots :
       AdvancesMarker(i) /\ (\E g \in generated' : g.text = tasks[i].text) =>
         /\ lastSummaryCount' # lastSummaryCount =>
              lastSummaryCount' = tasks[i].trig
         /\ kvStore'.summaryCount # kvStore.summaryCount =>
              kvStore'.summaryCount = tasks[i].trig]_vars

\* ---------------------------------------------------------------------
\* C26: a clinical-note pass whose generation call failed stores nothing
\* (the notes of the conversation, in the process and in KV, are unchanged
\* by its steps), and no note ever stored has an absent text.
\* ---------------------------------------------------------------------
HasText(notes) == \A n \in DOMAIN notes : notes[n].note # NoText

FailedNoteStoresNothing ==
  /\ [](HasText(clinicalHistory) /\ HasText(kvStore.clinical))
  /\ [][\A i \in Slots :
         FailedPassStep(i, "clinical") =>
           /\ clinicalHistory' = clinicalHistory
           /\ kvStore'.clinical = kvStore.clinical]_vars

\* The generation call of a clinical-note pass has failed.
ClinicalPassFailed ==
  \E p \in passes : p.kind = "clinical" /\ GenerationFailed(p)

\* ---------------------------------------------------------------------
\* C27: the clinical notes of the conversation are numbered 1, 2, 3, ... by
\* position, and every step leaves the notes already in the list in place:
\* the list after the step starts with the list before it.
\* ---------------------------------------------------------------------
Numbered(notes) == \A n \in DOMAIN notes : notes[n].sessionNumber = n

IsPrefix(s, t) == Len(s) <= Len(t) /\ SubSeq(t, 1, Len(s)) = s

NotesNumbered == Numbered(clinicalHistory) /\ Numbered(kvStore.clinical)

NotesKept == [][IsPrefix(clinicalHistory, clinicalHistory')]_vars

NotesAppendOnly == []NotesNumbered /\ NotesKept

\* ---------------------------------------------------------------------
\* C28: a diary pass whose generation call failed leaves the diary and the
\* diary date, in the process and in KV, as they were; and the webhook call
\* that appends the next turn on the same date starts a diary pass again
\* (unless another pass has produced the entry of that date meanwhile).
\* ---------------------------------------------------------------------
FailedDiaryStepKeeps ==
  \A i \in Slots :
    FailedPassStep(i, "diary") =>
      /\ dailyDiary' = dailyDiary /\ lastDiaryDate' = lastDiaryDate
      /\ kvStore'.diary = kvStore.diary
      /\ kvStore'.diaryDate = kvStore.diaryDate

DiaryRetriedNextTurn ==
  \A p \in passes :
    /\ p.kind = "diary" /\ p.turn = nAppended /\ GenerationFailed(p)
    /\ nAppended' = nAppended + 1 /\ today' = p.date
    /\ ~ \E g \in generated : g.kind = "diary" /\ g.date = p.date
    => \E q \in passes' \ passes : q.kind = "diary" /\ q.date = p.date

FailedDiaryRetried == [][FailedDiaryStepKeeps /\ DiaryRetriedNextTurn]_vars

\* A diary pass failed and the next turn, on the same date, started another.
DiaryRetried ==
  \E p, q \in passes :
    /\ p.kind = "diary" /\ q.kind = "diary" /\ GenerationFailed(p)
    /\ q.turn = p.turn + 1 /\ q.date = p.date

\* ---------------------------------------------------------------------
\* C29: when the diary trigger holds (the diary date is not today and the
\* history is not empty), the turns given to generateDailyDiaryEntry are
\* the whole history if there is no diary date, else exactly the turns of
\* the history dated today; if there are none, nothing is generated.
\* ---------------------------------------------------------------------
TurnsOfToday == SelectSeq(conversationHistory, LAMBDA m : m.date = today)

DiaryTriggerHolds == lastDiaryDate # today /\ conversationHistory # <<>>

DiaryInputSelection ==
  \A r \in prompts :
    DiaryTriggerHolds =>
      LET selection == IF lastDiaryDate = 0 THEN conversationHistory
                       ELSE TurnsOfToday
      IN  IF selection = <<>> THEN ~ r.started
          ELSE r.started /\ r.turns = selection

\* A prompt was built, with a diary date, from some of the turns only.
DiaryInputFiltered ==
  \E r \in prompts :
    /\ r.started /\ lastDiaryDate # 0
    /\ Len(r.turns) < Len(conversationHistory)

\* The trigger held with a diary date and no turn of today: nothing started.
DiaryInputEmpty ==
  \E r \in prompts :
    DiaryTriggerHolds /\ lastDiaryDate # 0 /\ TurnsOfToday = <<>> /\ ~ r.started

\* ---------------------------------------------------------------------
\* C30: when a diary entry is generated for a conversation with more than
\* 3 diary entries, the earlier entries placed in the prompt are the 3
\* entries with the latest dates.
\* ---------------------------------------------------------------------
\* The entries of the diary that fewer than n entries are more recent than.
Latest(diary, n) ==
  {e \in Range(diary) :
     Cardinality({f \in Range(diary) : f.date > e.date}) < n}

DiaryContextLatest ==
  \A r \in prompts :
    r.started /\ Len(dailyDiary) > 3 =>
      Range(r.previous) = Latest(dailyDiary, 3)

\* ---------------------------------------------------------------------
\* C31: every category the summaries of the conversation are filed under,
\* in the process and in KV, is one of the 8 categories of the list,
\* whatever the classification answer; and a pass whose classification
\* call failed files its summary under "Otros".
\* ---------------------------------------------------------------------
\* A summarization pass appends its summary in this step although one of
\* its calls failed: the classification call.
ClassificationFailed(i) ==
  /\ tasks[i].kind = "summary" /\ tasks[i].pc = "gen"
  /\ faults' = faults + 1
  /\ \E g \in generated' \ generated : g.text = tasks[i].text

KeysInTaxonomy ==
  /\ [](Keys(conversationSummaries) \subseteq Taxonomy
         /\ Keys(kvStore.summaries) \subseteq Taxonomy)
  /\ [][\A i \in Slots :
         ClassificationFailed(i) =>
           conversationSummaries'["Otros"] # conversationSummaries["Otros"]]_vars

\* ---------------------------------------------------------------------
\* C32: the overall summary stored for the conversation changes only in a
\* step that answers an overall-summary request; the steps of the webhook
\* and of its background chains leave it as it is.
\* ---------------------------------------------------------------------
OverallKeptByTurns ==
  [][apiLog' = apiLog => kvStore'.overall = kvStore.overall]_vars

\* An overall summary is stored, and a turn handled after it was generated
\* has started background chains that have all ended.
TurnAfterOverall ==
  /\ kvStore.overall # 0
  /\ Quiescent
  /\ \E p \in passes : p.text > kvStore.overall

\* ---------------------------------------------------------------------
\* C33: the messages sent for a reply are one system message, then for
\* each turn of the buffer, in buffer order, its user text and its
\* assistant text, then the new user text; in the system message the
\* summaries block is present exactly when summaries exist, comes after
\* the base instructions, and the final instruction is the last part.
\* ---------------------------------------------------------------------
PromptOrder ==
  requestMessages # <<>> =>
    LET m == requestMessages
        n == Len(conversationHistory)
        sys == m[1].content
    IN  /\ Len(m) = 2 * n + 2
        /\ m[1].role = "system"
        /\ \A i \in 2..Len(m) : m[i].role # "system"
        /\ \A k \in 1..n :
             /\ m[2 * k] = [role |-> "user", content |-> <<"msg.user">>,
                            turn |-> conversationHistory[k].id]
             /\ m[2 * k + 1] = [role |-> "assistant",
                                content |-> <<"msg.bot">>,
                                turn |-> conversationHistory[k].id]
        /\ m[Len(m)] = [role |-> "user", content |-> <<"message">>,
                        turn |-> 0]
        /\ sys[1] \in {"base", "minimum"}
        /\ sys[Len(sys)] = "final"
        /\ Cardinality({i \in DOMAIN sys : sys[i] = "final"}) = 1
        /\ ("summaries" \in Range(sys)) <=> (Keys(conversationSummaries) # {})
        /\ \A i, j \in DOMAIN sys :
             sys[i] = "summaries" /\ sys[j] \in {"base", "minimum"} => j < i

PromptWithAllParts ==
  /\ requestMessages # <<>>
  /\ Len(conversationHistory) = 2
  /\ Keys(conversationSummaries) # {}
  /\ instructionDocs
  /\ "documentation" \in Range(requestMessages[1].content)

\* ---------------------------------------------------------------------
\* C34: every started background task (summary, clinical note, diary)
\* eventually ends, whether the services it calls answer or not.
\* ---------------------------------------------------------------------
BackgroundTasksEnd ==
  \A i \in Slots : (tasks[i].kind # "none") ~> (tasks[i].kind = "none")

\* ---------------------------------------------------------------------
\* C35: when the two turns of a conversation were handled by calls of the
\* webhook that overlapped, and both replies were delivered, then once the
\* calls, the history writes and the background work have finished, both
\* turns are in the history of the process and, with KV, in the stored
\* history.
\* ---------------------------------------------------------------------
HasTurn(history, n) == \E i \in DOMAIN history : history[i].id = n

TurnKept(n) ==
  /\ HasTurn(conversationHistory, n)
  /\ kv => HasTurn(kvStore.history, n)

\* Two calls were made, no call to a service failed, both replies were
\* delivered (so both turns were appended, the last two), and nothing is
\* in progress.
BothDelivered ==
  /\ Quiescent
  /\ started = 2
  /\ faults = 0
  /\ Len(SelectSeq(outbox, LAMBDA x : x = "reply")) = 2

NoLostTurn ==
  BothDelivered => TurnKept(nAppended - 1) /\ TurnKept(nAppended)

\* ---------------------------------------------------------------------
\* C36: while a summarization pass of the conversation is running, no
\* later turn starts another one: at most one pass runs at a time.
\* ---------------------------------------------------------------------
SummaryPasses == {i \in Slots : tasks[i].kind = "summary"}

OneSummaryPassAtATime == Cardinality(SummaryPasses) <= 1

\* ---------------------------------------------------------------------
\* C37: the messageCount a clinical note is stored with is the number of
\* turns the trigger check of its pass saw, whatever was appended while
\* the text of the note was being generated.
\* ---------------------------------------------------------------------
\* Pass i stores its note in this step with the count of its trigger.
StoresTriggerCount(i) ==
  tasks[i].kind = "clinical" /\ tasks[i].pc = "gen" =>
    \A k \in DOMAIN clinicalHistory' :
      clinicalHistory'[k].note = tasks[i].text =>
        clinicalHistory'[k].messageCount = tasks[i].trig

NoteCountIsTriggerCount == [][\A i \in Slots : StoresTriggerCount(i)]_vars

\* ---------------------------------------------------------------------
\* C38: in every reachable state lastSummaryCount of the conversation is
\* at most the length of its history, the count the trigger check uses.
\* ---------------------------------------------------------------------
MarkerNotAhead == lastSummaryCount <= Len(conversationHistory)

\* ---------------------------------------------------------------------
\* C39: once the diary holds an entry for today and lastDiaryDate is
\* today, a turn handled today by the process starts no diary generation
\* and leaves the entry for today as it is.
\* ---------------------------------------------------------------------
\* The entry of the diary for date d, if there is one.
EntryFor(diary, d) == {e \in Range(diary) : e.date = d}

DiaryDoneToday ==
  /\ lastDiaryDate = today
  /\ EntryFor(dailyDiary, today) # {}

\* A step of a webhook call made while the clock still shows today.
TurnStepToday == pc' # pc /\ today' = today

DiaryDoneStays ==
  [][DiaryDoneToday /\ TurnStepToday =>
       /\ \A p \in passes' \ passes : p.kind # "diary"
       /\ EntryFor(dailyDiary', today) = EntryFor(dailyDiary, today)]_vars

============================================================================
